------------------------------ MODULE MapFile ------------------------------
(***************************************************************************)
(* A built CompressedMap written with write_to_file and read back with     *)
(* read_from_file (src/src/nonuniform.rs lines 439-472), composed with the *)
(* build of NonuniformMap.  Between the write and the read the file may    *)
(* suffer one of the corruptions the map's documentation says a read must  *)
(* reject: it is cut short, a byte is appended, the magic is changed, or   *)
(* an nblocks entry is zeroed.                                             *)
(***************************************************************************)
EXTENDS Codec

VARIABLES
    file,       \* the bytes on disk, as units of the stream
    fstate,     \* "absent", "intact" (as written) or "corrupt"
    loaded      \* what read_from_file returned

NotRead == [ok |-> FALSE, err |-> "not read"]

fileVars == <<file, fstate, loaded>>
allVars == <<vars, fileVars>>

(* The unit holding the nblocks of phase p in the stream of map m. *)
NBlocksAt(m, p) == 2 * Len(m.response_map) + 3 + Len(m.salt) + p

(* write_to_file (lines 439-450): create_new fails on an existing file,    *)
(* changing nothing, so the file is written once.                          *)
WriteToFile ==
    /\ pc = "done"
    /\ fstate = "absent"
    /\ file' = Encode(result)
    /\ fstate' = "intact"
    /\ UNCHANGED <<vars, loaded>>

(* A corruption applies to a file as written and not yet read. *)
Corruptible == fstate = "intact" /\ loaded = NotRead

Corrupt(f) ==
    /\ file' = f
    /\ fstate' = "corrupt"
    /\ UNCHANGED <<vars, loaded>>

Truncate == Corruptible /\ \E n \in 0 .. Len(file) - 1 : Corrupt(SubSeq(file, 1, n))

AppendByte == Corruptible /\ Corrupt(Append(file, 0))

FlipMagic == Corruptible /\ Corrupt([file EXCEPT ![1] = "cnm0"])

ZeroNBlocks ==
    Corruptible /\ \E p \in DOMAIN result.core : Corrupt([file EXCEPT ![NBlocksAt(result, p)] = 0])

(* read_from_file (lines 459-472). *)
ReadFromFile ==
    /\ fstate # "absent"
    /\ loaded = NotRead
    /\ loaded' = read_from_file(file)
    /\ UNCHANGED <<vars, file, fstate>>

FileInit ==
    /\ Init
    /\ file = <<>>
    /\ fstate = "absent"
    /\ loaded = NotRead

FileNext ==
    \/ Next /\ UNCHANGED fileVars
    \/ WriteToFile
    \/ Truncate
    \/ AppendByte
    \/ FlipMagic
    \/ ZeroNBlocks
    \/ ReadFromFile

FileSpec == FileInit /\ [][FileNext]_allVars

-----------------------------------------------------------------------------
(* Serialize then deserialize gives the same map (spec section 8,         *)
(* property 2): the plan, the response map rebuilt from the log widths of  *)
(* Encode, the salt, and each MapCore with the hash key the decoder        *)
(* rechains from the first one and the salt, the bits_per_value it derives *)
(* from the plan and the nblocks; and nothing is left over.  This rests on *)
(* formulate_plan putting the one width that is not a power of 2 last,     *)
(* since LogWidth is exact only for powers of 2.                           *)
ReadRoundTrip ==
    (loaded # NotRead /\ fstate = "intact") => loaded.ok /\ loaded.map = result

(* A file cut short at any unit, with a byte appended, with a changed magic *)
(* or with a zeroed nblocks is refused by read_from_file (spec section 8,  *)
(* property 8, and the corruption tests of section 9).                     *)
CorruptFileRejected ==
    (loaded # NotRead /\ fstate = "corrupt") => ~loaded.ok

=============================================================================
