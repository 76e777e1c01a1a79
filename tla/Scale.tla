------------------------------- MODULE Scale -------------------------------
(***************************************************************************)
(* The SCALE encodings the circuits and the data fetcher cut out of byte   *)
(* strings by position: compact integers, whose width depends on the       *)
(* value, the fields of a header behind such an integer, and the list of   *)
(* authorities in the node's storage.                                      *)
(*                                                                         *)
(* Bytes count from 0, as in the code.                                     *)
(***************************************************************************)
EXTENDS Integers

Byte == 0 .. 255

HASH_SIZE == 32
PUBKEY_LENGTH == 32
WEIGHT_LENGTH == 8
VALIDATOR_LENGTH == PUBKEY_LENGTH + WEIGHT_LENGTH
DELAY_LENGTH == 4
DATA_ROOT_OFFSET_FROM_END == 32

-----------------------------------------------------------------------------
(* Compact integers. *)

(* Compact(n).encode(), of parity-scale-codec: the two low bits of the     *)
(* first byte name the mode, the value follows, little endian; in mode 3   *)
(* the upper six bits are the number of bytes less four.                   *)
CompactMode(n) ==
    IF n < 64 THEN 0 ELSE IF n < 16384 THEN 1 ELSE IF n < 1073741824 THEN 2
    ELSE 3

CompactByte(n, i) ==
    IF CompactMode(n) = 3
    THEN IF i = 0 THEN 3
         ELSE IF i = 1 THEN n % 256
         ELSE IF i = 2 THEN (n \div 256) % 256
         ELSE IF i = 3 THEN (n \div 65536) % 256
         ELSE n \div 16777216
    ELSE IF i = 0 THEN (n % 64) * 4 + CompactMode(n)
         ELSE IF i = 1 THEN (n \div 64) % 256
         ELSE IF i = 2 THEN (n \div 16384) % 256
         ELSE n \div 4194304

(* The table of get_new_authority_set_size_encoded_byte_length. *)
EncodedLength(compress_mode) == <<1, 2, 4, 5>>[compress_mode + 1]

(* Compact(n).encode().len() *)
CompactLength(n) ==
    IF n < 64 THEN 1 ELSE IF n < 16384 THEN 2 ELSE IF n < 1073741824 THEN 4
    ELSE 5

(* Mutant: the two bits of the mode are left in the value of mode 2. *)
CompactValueUnshifted(b, compress_mode) ==
    IF compress_mode = 0 THEN b[0] \div 4
    ELSE IF compress_mode = 1 THEN b[0] \div 4 + b[1] * 64
    ELSE IF compress_mode = 2
         THEN b[0] + b[1] * 64 + b[2] * 16384 + b[3] * 4194304
    ELSE b[1] + b[2] * 256 + b[3] * 65536 + b[4] * 16777216

(* decode_compact_int: the value is selected by the mode; b is an array of *)
(* five bytes, of which the last ones may belong to the next field.        *)
CompactValue(b, compress_mode) ==
    IF compress_mode = 0 THEN b[0] \div 4
    ELSE IF compress_mode = 1 THEN b[0] \div 4 + b[1] * 64
    ELSE IF compress_mode = 2
         THEN b[0] \div 4 + b[1] * 64 + b[2] * 16384 + b[3] * 4194304
    ELSE b[1] + b[2] * 256 + b[3] * 65536 + b[4] * 16777216

CompressMode(b) == b[0] % 4

(* The assertion: a mode 3 integer has four bytes. *)
ValidEncodedLength(b) == CompressMode(b) = 3 => b[0] \div 4 = 0

-----------------------------------------------------------------------------
(* Positions in a header. *)

(* all_possible_state_roots of decode_header. *)
StateRootStart(compress_mode) == <<33, 34, 36, 37>>[compress_mode + 1]

(* data_root_start of decode_header; the header of a padding slot is empty.*)
DataRootStart(header_size) ==
    IF header_size = 0 THEN 0 ELSE header_size - DATA_ROOT_OFFSET_FROM_END

-----------------------------------------------------------------------------
(* The value of :grandpa_authorities: a version byte, the compact number   *)
(* of authorities, and a key and a weight for each.                        *)
StoredAuthoritiesLength(n) == 1 + CompactLength(n) + n * VALIDATOR_LENGTH

(* Mutant: 64 authorities are taken to have a one byte length too. *)
AuthoritiesOffsetLate(len) == IF len <= VALIDATOR_LENGTH * 64 + 3 THEN 2 ELSE 3

(* Where get_authorities starts to read, from the length alone. *)
AuthoritiesOffset(len) == IF len <= VALIDATOR_LENGTH * 63 + 2 THEN 2 ELSE 3

(* The assertion of get_authorities, and how many it then reads. *)
AuthoritiesAligned(len) ==
    (len - AuthoritiesOffset(len)) % VALIDATOR_LENGTH = 0

AuthoritiesRead(len) == (len - AuthoritiesOffset(len)) \div VALIDATOR_LENGTH
=============================================================================
