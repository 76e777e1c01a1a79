------------------------------- MODULE Rotate -------------------------------
(***************************************************************************)
(* The rotate circuit: the hint that finds the authority set change in the *)
(* digest of an epoch end header, and the gadget that cuts the new keys    *)
(* out of the header by position.  Avail's RotateProvable and RotateOutput *)
(* are what this module should come to.                                    *)
(*                                                                         *)
(* A header is a partial function from byte positions to the fields that   *)
(* start there, with the real field sizes: a single byte, an engine id, a  *)
(* key, a weight, a delay, or opaque bytes, each tagged with its kind.     *)
(* The bytes inside an opaque field or a key are taken not to imitate      *)
(* other fields.                                                           *)
(***************************************************************************)
EXTENDS Justification, Scale

CONSTANTS
    FirstHeights,     \* heights that block 0 of the instance may stand for
    Digest,           \* [Blocks -> Seq(log)]: the digest logs of a header
    ExtensionLength,  \* bytes of the extension before the data root
    MAX_HEADER_SIZE

(* DigestItem's variants, by their SCALE index. *)
Consensus == 4
Seal == 5
PreRuntime == 6

(* A log with a list of authorities behind its tag, and one without.       *)
ListLog(engine, tag, keys, tail, tailLength) ==
    [flag |-> Consensus, engine |-> engine, tag |-> tag, keys |-> keys,
     listed |-> TRUE, tail |-> tail, tailLength |-> tailLength]
PlainLog(flag, engine, tag, tailLength) ==
    [flag |-> flag, engine |-> engine, tag |-> tag, keys |-> <<>>,
     listed |-> FALSE, tail |-> <<"opaque", tag>>, tailLength |-> tailLength]

ZeroDelay == <<"delay", 0>>
ScheduledChange(keys) == ListLog("FRNK", 1, keys, ZeroDelay, DELAY_LENGTH)

IsScheduledChange(log) ==
    log.flag = Consensus /\ log.engine = "FRNK" /\ log.tag = 1 /\ log.listed

(* What the chain promises about digests: an epoch end block announces the *)
(* next set without delay, in its first GRANDPA log, and no other block    *)
(* has a ScheduledChange.  Fewer than 64 logs have a one byte count.       *)
ASSUME DigestAssumption ==
    \A b \in Blocks :
        LET logs == Digest[b]
            grandpa == {i \in 1 .. Len(logs) : logs[i].flag = Consensus
                                                /\ logs[i].engine = "FRNK"}
        IN  /\ Len(logs) < 64
            /\ \A i \in grandpa : IsScheduledChange(logs[i]) =>
                  /\ IsEpochEnd(JustifyingSet(b), b)
                  /\ logs[i] = ScheduledChange(get_authorities(b))
            /\ b # 0 /\ IsEpochEnd(JustifyingSet(b), b) =>
                  \E i \in grandpa : /\ IsScheduledChange(logs[i])
                                     /\ \A j \in grandpa : i <= j

VARIABLES
    head,              \* Avail's finalized head
    firstHeight,       \* the height that block 0 stands for
    authority_set_id,  \* the public input
    status,            \* how far the proof got
    byHint,            \* the witness comes from RotateHint
    witness,           \* the RotateStruct, with the block of its header
    output             \* the public output

rotateVars == <<head, firstHeight, authority_set_id, status, byHint, witness,
                output>>

-----------------------------------------------------------------------------
(* The encoded header (avail-subxt's Header::encode).                      *)

number(b) == firstHeight + b

ValueLength(log) ==
    1 + log.tailLength
      + IF log.listed
        THEN CompactLength(Len(log.keys)) + Len(log.keys) * VALIDATOR_LENGTH
        ELSE 0

LogLength(log) == 1 + 4 + CompactLength(ValueLength(log)) + ValueLength(log)

CompactFields(n, at) ==
    [p \in at .. at + CompactLength(n) - 1 |-> <<"byte", CompactByte(n, p - at)>>]

(* A field at a position, and the fields of two parts of the header. *)
Field(p, field) == [q \in {p} |-> field]
f ++ g ==
    [q \in DOMAIN f \cup DOMAIN g |-> IF q \in DOMAIN f THEN f[q] ELSE g[q]]

(* Key i of the list is at VALIDATOR_LENGTH * (i - 1), its weight behind.  *)
AuthorityFields(keys, at) ==
    LET KeyStart(i) == at + (i - 1) * VALIDATOR_LENGTH
    IN  [p \in {KeyStart(i) : i \in 1 .. Len(keys)} |->
            <<"key", keys[(p - at) \div VALIDATOR_LENGTH + 1]>>]
        ++ [p \in {KeyStart(i) + PUBKEY_LENGTH : i \in 1 .. Len(keys)} |->
            <<"weight", 1>>]

(* Encoded logs have bytes behind the tag, and those behind a list are no  *)
(* key, engine id or compact integer.                                      *)
ASSUME LogsAssumption ==
    \A b \in Blocks : /\ Len(Digest[b]) \in Nat
                       /\ \A i \in 1 .. Len(Digest[b]) :
                             LET log == Digest[b][i]
                             IN  /\ log.keys \in Seq(Authority)
                                 /\ log.tailLength \in Nat \ {0}
                                 /\ log.tail[1] \in {"delay", "opaque"}

LogFields(log, at) ==
    LET value == at + 5 + CompactLength(ValueLength(log))
        list == value + 1 + CompactLength(Len(log.keys))
    IN  Field(at, <<"byte", log.flag>>)
        ++ Field(at + 1, <<"engine", log.engine>>)
        ++ CompactFields(ValueLength(log), at + 5)
        ++ Field(value, <<"byte", log.tag>>)
        ++ Field(value + ValueLength(log) - log.tailLength, log.tail)
        ++ IF log.listed THEN CompactFields(Len(log.keys), value + 1)
                              ++ AuthorityFields(log.keys, list)
           ELSE <<>>

(* Length of the first i logs of block b. *)
LogsLength(b, i) ==
    LET sum[j \in 0 .. Len(Digest[b])] ==
            IF j = 0 THEN 0 ELSE sum[j - 1] + LogLength(Digest[b][j])
    IN  sum[i]

DigestStart(b) == HASH_SIZE + CompactLength(number(b)) + 2 * HASH_SIZE

header_size(b) ==
    DigestStart(b) + 1 + LogsLength(b, Len(Digest[b])) + ExtensionLength
        + HASH_SIZE

(* Every header fits the circuit, whose headers have 35840 bytes in the    *)
(* source; the number has five bytes at most.                              *)
ASSUME HeaderSizeAssumption ==
    /\ FirstHeights \subseteq Nat
    /\ ExtensionLength \in Nat
    /\ MAX_HEADER_SIZE \in Nat /\ MAX_HEADER_SIZE < 4194304
    /\ \A b \in Blocks :
          3 * HASH_SIZE + 5 + 1 + LogsLength(b, Len(Digest[b]))
              + ExtensionLength + HASH_SIZE <= MAX_HEADER_SIZE

LogStart(b, i) == DigestStart(b) + 1 + LogsLength(b, i - 1)

DigestFields(b) ==
    LET logs == [i \in 1 .. Len(Digest[b]) |->
                    LogFields(Digest[b][i], LogStart(b, i))]
    IN  [p \in UNION {DOMAIN logs[i] : i \in DOMAIN logs} |->
            logs[CHOOSE i \in DOMAIN logs : p \in DOMAIN logs[i]][p]]

HeaderFields(b) ==
    Field(0, <<"parent", b>>)
    ++ CompactFields(number(b), HASH_SIZE)
    ++ Field(DigestStart(b) - 2 * HASH_SIZE, <<"state root", b>>)
    ++ Field(DigestStart(b) - HASH_SIZE, <<"extrinsics root", b>>)
    ++ CompactFields(Len(Digest[b]), DigestStart(b))
    ++ DigestFields(b)
    ++ Field(header_size(b) - HASH_SIZE, <<"data root", b>>)

(* The header of a padding slot: no bytes but the zero padding. *)
NoFields == <<>>

(* What a read at position p finds; inside a field, nothing recognizable.  *)
Read(fields, p) ==
    IF p \in DOMAIN fields THEN fields[p] ELSE <<"inside", p>>

(* Five bytes for decode_compact_int.  A byte of another kind of field is  *)
(* only read behind a shorter integer; 0 stands for it.                    *)
CompactBytesAt(fields, p) ==
    [i \in 0 .. 4 |-> IF Read(fields, p + i)[1] = "byte"
                      THEN Read(fields, p + i)[2] ELSE 0]

-----------------------------------------------------------------------------
(* decode_header. *)

(* get_fixed_subarray selects length bytes inside the array. *)
get_fixed_subarray(start, length) ==
    start >= 0 /\ start + length <= MAX_HEADER_SIZE

decode_header(fields, size) ==
    LET b == CompactBytesAt(fields, HASH_SIZE)
    IN  [valid        |-> /\ ValidEncodedLength(b)
                          /\ get_fixed_subarray(DataRootStart(size), HASH_SIZE),
         block_number |-> CompactValue(b, CompressMode(b)),
         parent_hash  |-> Read(fields, 0),
         state_root   |-> Read(fields, StateRootStart(CompressMode(b))),
         data_root    |-> Read(fields, DataRootStart(size))]

-----------------------------------------------------------------------------
(* The gadget. *)

BASE_PREFIX_LENGTH == 9
MAX_PREFIX_LENGTH == BASE_PREFIX_LENGTH + 5
MAX_SUBARRAY_SIZE == MAX_AUTHORITY_SET_SIZE * VALIDATOR_LENGTH + DELAY_LENGTH

(* 300 in the source.  The gadget takes the length of the announcement for *)
(* two bytes, which it has up to 409 authorities.                          *)
ASSUME SetSizeAssumption == MAX_AUTHORITY_SET_SIZE <= 409

(* The gadget cuts the list of a full set out of the header, however short *)
(* the announced one is: the logs before it must leave room for that.      *)
ASSUME RoomAssumption ==
    \A b \in Blocks : \A i \in 1 .. Len(Digest[b]) :
        IsScheduledChange(Digest[b][i]) =>
            3 * HASH_SIZE + 5 + LogsLength(b, i - 1) + MAX_PREFIX_LENGTH
                + MAX_SUBARRAY_SIZE <= MAX_HEADER_SIZE

(* Skip a byte; flag, engine id; skip two bytes; the tag. *)
verify_prefix_epoch_end_header(fields, start) ==
    /\ Read(fields, start + 1) = <<"byte", Consensus>>
    /\ Read(fields, start + 2) = <<"engine", "FRNK">>
    /\ Read(fields, start + 8) = <<"byte", 1>>

(* Mutant: the last validator is already disabled when it is checked. *)
ValidatorDisabledEarly(i, num_authorities) == num_authorities <= i

(* validator_disabled when slot i is checked: an earlier one was the last. *)
validator_disabled(i, num_authorities) ==
    \E j \in 1 .. i - 1 : j = num_authorities

verify_epoch_end_header(fields, num_authorities, start, new_pubkeys) ==
    LET count == CompactBytesAt(fields, start + BASE_PREFIX_LENGTH)
        cursor == start + BASE_PREFIX_LENGTH + EncodedLength(CompressMode(count))
        Slot(i) == cursor + (i - 1) * VALIDATOR_LENGTH
    IN  /\ num_authorities # 0
        /\ get_fixed_subarray(start, MAX_PREFIX_LENGTH)
        /\ verify_prefix_epoch_end_header(fields, start)
        /\ ValidEncodedLength(count)
        /\ CompactValue(count, CompressMode(count)) = num_authorities
        /\ get_fixed_subarray(cursor, MAX_SUBARRAY_SIZE)
        /\ \A i \in Slots : ~validator_disabled(i, num_authorities) =>
              /\ Read(fields, Slot(i)) = <<"key", new_pubkeys[i]>>
              /\ Read(fields, Slot(i) + PUBKEY_LENGTH) = <<"weight", 1>>
        /\ \A i \in Slots : i = num_authorities =>
              Read(fields, Slot(i) + VALIDATOR_LENGTH) = ZeroDelay

(* The justification of an epoch end block, signed by its whole set. *)
EpochEndJustification(b) ==
    LET authorities == get_authorities(b - 1)
    IN  CircuitJustification(b,
           JustificationData(authorities, SignedMessage(b, JustifyingSet(b)),
              {authorities[i] : i \in 1 .. Len(authorities)}))

rotate(set_id, set_hash, w) ==
    /\ verify_simple_justification(w.block, HeaderHash[w.block], set_id,
                                   set_hash, EpochEndJustification(w.block))
    /\ verify_epoch_end_header(HeaderFields(w.block), w.num_authorities,
                               w.start_position, w.new_pubkeys)

-----------------------------------------------------------------------------
(* The hint. *)

PadKeys(keys) == [i \in Slots |-> IF i <= Len(keys) THEN keys[i]
                                  ELSE DUMMY_PUBLIC_KEY]

IsGrandpaLog(log) == log.flag = Consensus /\ log.engine = "FRNK"

(* The log at which the loop of get_header_rotate breaks. *)
FirstGrandpaLog(b) ==
    CHOOSE i \in 1 .. Len(Digest[b]) :
        /\ IsGrandpaLog(Digest[b][i])
        /\ \A j \in 1 .. i - 1 : ~IsGrandpaLog(Digest[b][j])

(* The assertions of get_header_rotate.  For block 0, the sentinel of      *)
(* last_justified_block, epoch_end_block - 1 leaves u32.                   *)
HeaderRotateAsserts(b) ==
    /\ b # 0
    /\ AuthoritySetId[b] - 1 = AuthoritySetId[b - 1]
    /\ header_size(b) <= MAX_HEADER_SIZE
    /\ LET len == StoredAuthoritiesLength(Len(get_authorities(b)))
       IN  /\ AuthoritiesAligned(len)
           /\ AuthoritiesRead(len) = Len(get_authorities(b))
    /\ \E i \in 1 .. Len(Digest[b]) : IsGrandpaLog(Digest[b][i])
    /\ LET log == Digest[b][FirstGrandpaLog(b)]
       IN  /\ log.tag = 1
           /\ log.keys = get_authorities(b)
           /\ log.tail = ZeroDelay

(* Mutant: the block number is taken to have the four bytes it usually has.*)
StartPositionOfUsualHeader(b) ==
    HASH_SIZE + 4 + 2 * HASH_SIZE + LogsLength(b, FirstGrandpaLog(b) - 1)

(* position when the loop breaks: one byte before the log, the byte of the *)
(* number of logs or the last one of the log before.                       *)
StartPosition(b) ==
    HASH_SIZE + CompactLength(number(b)) + 2 * HASH_SIZE
        + LogsLength(b, FirstGrandpaLog(b) - 1)

get_header_rotate(b) ==
    [block           |-> b,
     num_authorities |-> Len(get_authorities(b)),
     start_position  |-> StartPosition(b),
     new_pubkeys     |-> PadKeys(get_authorities(b))]

NoWitness == [block |-> 0, num_authorities |-> 0, start_position |-> 0,
              new_pubkeys |-> PadKeys(<<>>)]

-----------------------------------------------------------------------------
RotateInit ==
    /\ head \in Blocks
    /\ firstHeight \in FirstHeights
    /\ authority_set_id \in {AuthoritySetId[b] : b \in Blocks}
    /\ status = "requested"
    /\ byHint = TRUE
    /\ witness = NoWitness
    /\ output = Zero

Finalize ==
    /\ head < MaxBlock
    /\ head' = head + 1
    /\ UNCHANGED <<firstHeight, authority_set_id, status, byHint, witness,
                   output>>

RotateHint ==
    /\ status = "requested"
    /\ LET b == last_justified_block(authority_set_id, head)
       IN  IF HeaderRotateAsserts(b)
           THEN status' = "witnessed" /\ witness' = get_header_rotate(b)
           ELSE status' = "panicked" /\ witness' = witness
    /\ UNCHANGED <<head, firstHeight, authority_set_id, byHint, output>>

(* The keys a prover would have to claim for a list at this position, one  *)
(* of them perhaps replaced.                                               *)
ClaimedKeys(fields, start, n) ==
    LET list == start + BASE_PREFIX_LENGTH + CompactLength(n)
        found == [i \in Slots |->
                    LET f == Read(fields, list + (i - 1) * VALIDATOR_LENGTH)
                    IN  IF f[1] = "key" THEN f[2] ELSE DUMMY_PUBLIC_KEY]
    IN  {found} \cup
        {[found EXCEPT ![i] = DUMMY_PUBLIC_KEY] : i \in {1, n} \cap Slots}

(* The witness is untrusted: a prover may start anywhere in the header of  *)
(* any block that the set justified, with any number of authorities.       *)
OtherWitness ==
    /\ status = "requested"
    /\ \E b \in Blocks \ {0} :
          /\ b <= head /\ JustifyingSet(b) = authority_set_id
          /\ LET fields == HeaderFields(b)
             IN  \E p \in DOMAIN fields :
                    /\ fields[p][1] = "byte" /\ p > 0
                    /\ LET count == CompactBytesAt(fields, p - 1 + BASE_PREFIX_LENGTH)
                           n == CompactValue(count, CompressMode(count))
                       IN  \E m \in {n, n - 1} \cap Slots :
                           \E keys \in ClaimedKeys(fields, p - 1, m) :
                              witness' = [block           |-> b,
                                          num_authorities |-> m,
                                          start_position  |-> p - 1,
                                          new_pubkeys     |-> keys]
    /\ status' = "witnessed"
    /\ byHint' = FALSE
    /\ UNCHANGED <<head, firstHeight, authority_set_id, output>>

(* The prover runs the circuit on the witness. *)
Prove ==
    /\ status = "witnessed"
    /\ IF rotate(authority_set_id, AuthoritySetHash[authority_set_id], witness)
       THEN /\ status' = "proved"
            /\ output' = compute_authority_set_commitment(
                            witness.num_authorities, witness.new_pubkeys)
       ELSE status' = "rejected" /\ output' = output
    /\ UNCHANGED <<head, firstHeight, authority_set_id, byHint, witness>>

RotateNext == Finalize \/ RotateHint \/ OtherWitness \/ Prove

RotateSpec == RotateInit /\ [][RotateNext]_rotateVars

-----------------------------------------------------------------------------
PublicInput == [authoritySetId   |-> authority_set_id,
                authoritySetHash |-> AuthoritySetHash[authority_set_id]]

(* The hint panics only while the requested set is still the current one   *)
(* (last_justified_block then returns 0, and 0 - 1 is no block): the width *)
(* of the stored number of authorities, the logs before the announcement   *)
(* and the size of the set never make it fail.                             *)
HintPanicsOnlyIfCurrent ==
    [][status' = "panicked" /\ status # "panicked" =>
          ~RotateProvable(PublicInput, head)]_rotateVars

(* The positions that get_header_rotate computes are those at which the    *)
(* circuit finds the announcement, for every width of the block number,    *)
(* every digest and every size of the set but one: the witness of the hint *)
(* is proved, and the output is the hash of the next set that the contract *)
(* stores.  The announcement of a single authority has a one byte length,  *)
(* the circuit skips two (rotate.rs: verify_prefix_epoch_end_header), and  *)
(* that witness alone is rejected.                                         *)
RotateComplete ==
    byHint =>
        /\ status = "rejected" => witness.num_authorities = 1
        /\ status = "proved" => /\ witness.num_authorities # 1
                                /\ output = RotateOutput(PublicInput)

(* Whatever header, start position, count and keys a prover supplies, a    *)
(* proof exists only for the set that the epoch end block announces: not   *)
(* for the authorities of another log, nor for a shortened list.           *)
OnlyScheduledChange ==
    status = "proved" =>
        /\ RotateProvable(PublicInput, head)
        /\ output = RotateOutput(PublicInput)

(* decode_header finds number, parent hash, state root and data root in    *)
(* every header, whatever the width of its number, and also decodes the    *)
(* empty header that pads the subchain circuit.                            *)
HeadersDecode ==
    /\ \A b \in Blocks :
          decode_header(HeaderFields(b), header_size(b)) =
              [valid        |-> TRUE,
               block_number |-> number(b),
               parent_hash  |-> <<"parent", b>>,
               state_root   |-> <<"state root", b>>,
               data_root    |-> <<"data root", b>>]
    /\ decode_header(NoFields, 0).valid
    /\ decode_header(NoFields, 0).block_number = 0
=============================================================================
