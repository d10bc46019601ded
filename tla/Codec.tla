------------------------------- MODULE Codec -------------------------------
(***************************************************************************)
(* The byte layout of a CompressedMap: Encode::encode (lines 477-509) and  *)
(* BorrowDecode::borrow_decode (lines 511-603) of src/src/nonuniform.rs,   *)
(* and the trailing-bytes check of read_from_file (lines 459-472).         *)
(*                                                                         *)
(* A stream is a sequence of units.  A unit is what bincode reads or       *)
(* writes as a whole: the 4-byte magic, one varint (a Vec length, the     *)
(* plan, an nblocks), one u8, one encoded value, the 16-byte hash key, one *)
(* raw byte of salt or of blocks.  Splitting a stream inside a unit fails  *)
(* as splitting it before that unit does, so nothing is lost by not        *)
(* splitting units.  A phase's blocks are BLOCKSIZE * nblocks * bpv bytes  *)
(* of which each is modelled as carrying the answers of that MapCore.      *)
(***************************************************************************)
EXTENDS NonuniformMap

CONSTANT BlockSize      \* BLOCKSIZE of uniform.rs

ASSUME BlockSize \in Nat \ {0}

MAGIC == "cnm1"
ZeroKey == "zero_key"   \* [0u8;16], the hash key written when there are no phases

(* The bytes of a MapCore's blocks. *)
Blocks(c) == [j \in 1 .. c.nblocks * BlockSize * c.bits_per_value |-> c.out]

(* Mutant: the log width written without the +1. *)
LogWidthNoInc(delta) == LeadingZeros(delta)

(* The log width the encoder writes for a response of width delta         *)
(* (lines 483-486): exact only when delta is a power of 2.                *)
LogWidth(delta) == LeadingZeros(delta) + 1

(* Encode::encode, lines 477-509. *)
Encode(m) ==
    LET rm == m.response_map
        n == Len(rm)
        hash_key == IF m.core = <<>> THEN ZeroKey ELSE m.core[1].hash_key
    IN <<MAGIC, n - 1>>
       \o [i \in 1 .. n - 1 |-> LogWidth(rm[i + 1][1] - rm[i][1])]
       \o [i \in 1 .. n |-> rm[i][2]]
       \o <<hash_key, m.plan>>
       \o m.salt
       \o [p \in DOMAIN m.core |-> m.core[p].nblocks]
       \o FlattenSeq([p \in DOMAIN m.core |-> Blocks(m.core[p])])

Err(e) == [ok |-> FALSE, err |-> e]

(* cur_plan after k phases: its k lowest set bits cleared (line 570). *)
RECURSIVE ClearLow(_, _)
ClearLow(plan, k) == IF k = 0 THEN plan ELSE ClearLow(plan & (plan - 1), k - 1)

(* The check of line 558. *)
NBlocksTooFew(nb) == nb < 2

(* BorrowDecode::borrow_decode, lines 511-603: the decoded map and the     *)
(* number of units it consumed, or an error.  The checks come in the      *)
(* code's order; a read past the end of s is the error "eof".              *)
Decode(s) ==
    LET Has(i) == i <= Len(s)
        nlog == s[2]
        logr(i) == s[2 + i]
        pResp == 3 + nlog                     \* first response
        resp(i) == s[pResp + i - 1]
        r(i) == 2^(LocatorBits - logr(i))     \* 1 << (BITS - logr)
        lo(i) == MapThenSumSet(r, 1 .. i - 1)
        badLogr(i) == logr(i) = 0 \/ logr(i) > LocatorBits
        \* the loop of lines 530-543 stops at the first width that is invalid
        \* or whose checked_add overflows
        respBad(i) == badLogr(i) \/ ((\A j \in 1 .. i : ~badLogr(j)) /\ lo(i + 1) > LocatorMax)
        firstRespBad == Min({i \in 1 .. nlog : respBad(i)})
        pHK == pResp + nlog + 1
        plan == s[pHK + 1]
        nphases == CountOnes(plan)
        len_salt == Max({1, nphases}) - 1
        pSalt == pHK + 2
        salt_read == SubSeq(s, pSalt, pSalt + len_salt - 1)
        pNB == pSalt + len_salt
        nb(p) == s[pNB + p]
        nbGood(p) == Has(pNB + p) /\ ~NBlocksTooFew(nb(p))   \* lines 556-559
        pBlk == pNB + nphases
        bpv(p) == TrailingZeros(ClearLow(plan, p + 1)) - TrailingZeros(ClearLow(plan, p))
        len(p) == nb(p) * BlockSize * bpv(p)
        start(p) == pBlk + MapThenSumSet(len, 0 .. p - 1)
        \* the loop of lines 565-588 checks phase p's multiply, then reads its blocks
        blkBad(p) == len(p) > UsizeMax \/ ~Has(start(p + 1) - 1)
        firstBlkBad == Min({p \in 0 .. nphases - 1 : blkBad(p)})
        hk[p \in 0 .. nphases - 1] ==
            IF p = 0 THEN s[pHK] ELSE choose_key(hk[p - 1], salt_read[p])
    IN IF ~Has(1) THEN Err("eof")
       ELSE IF s[1] # MAGIC THEN Err("magic value mismatch")
       ELSE IF ~Has(2) \/ ~Has(pResp + nlog) THEN Err("eof")
       ELSE IF \E i \in 1 .. nlog : respBad(i)
            THEN IF badLogr(firstRespBad) THEN Err("invalid logr")
                 ELSE Err("responses must sum to < Locator::BITS")
       ELSE IF ~Has(pHK + 1) \/ ~Has(pNB - 1) THEN Err("eof")
       ELSE IF \E p \in 0 .. nphases - 1 : ~nbGood(p)
            THEN IF Has(pNB + Min({p \in 0 .. nphases - 1 : ~nbGood(p)}))
                 THEN Err("must have at least 2 nblocks") ELSE Err("eof")
       ELSE IF nphases > 0 /\ nphases # len_salt + 1 THEN Err("salt has the wrong length")
       ELSE IF \E p \in 0 .. nphases - 1 : blkBad(p)
            THEN IF len(firstBlkBad) > UsizeMax THEN Err("overflow on multiply")
                 ELSE Err("eof")
       ELSE [ok |-> TRUE,
             len |-> start(nphases) - 1,
             map |-> [plan |-> plan,
                      response_map |-> [i \in 1 .. nlog + 1 |-> <<lo(i), resp(i)>>],
                      salt |-> salt_read,
                      core |-> [p \in 1 .. nphases |->
                                  [hash_key |-> hk[p - 1],
                                   bits_per_value |-> bpv(p - 1),
                                   nblocks |-> nb(p - 1),
                                   out |-> s[start(p - 1)]]]]]

(* Mutant: bytes left over after the map are not refused. *)
read_from_file_lenient(s) == Decode(s)

(* read_from_file after the bytes are read (lines 461-471): decode, then   *)
(* refuse bytes left over; take_ownership copies the same map.            *)
read_from_file(s) ==
    LET d == Decode(s)
    IN IF d.ok /\ d.len < Len(s) THEN Err("bytes left over on read_from_file") ELSE d

=============================================================================
