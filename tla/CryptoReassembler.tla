------------------------- MODULE CryptoReassembler -------------------------
(***************************************************************************)
(* CryptoFrameReassembler of src/src/network/types.rs: the CRYPTO frames   *)
(* of one direction of a QUIC handshake, put together from fragments that  *)
(* arrive in any order, repeated and cut differently.  A byte of the       *)
(* stream is its position, so that a byte out of place shows.              *)
(***************************************************************************)
EXTENDS Integers, Sequences, FiniteSets

CONSTANTS
  max_buffer_size   \* bytes one reassembler keeps (64 KB)

ASSUME BufferAssumption == max_buffer_size \in Nat

(* A fragment: its offset and its bytes.                                   *)
Fragment(offset, len) ==
  [offset |-> offset, data |-> [i \in 1..len |-> offset + i - 1]]

FragEnd(f) == f.offset + Len(f.data)

Reassemblers ==
  [fragments : SUBSET [offset : Nat, data : Seq(Nat)], contiguous_offset : Nat,
   current_buffer_size : Nat]

NewReassembler == [fragments |-> {}, contiguous_offset |-> 0, current_buffer_size |-> 0]

(* The fragments in the order of the BTreeMap.                             *)
InOrder(fragments) ==
  LET Index == 1..Cardinality(fragments) IN
  CHOOSE s \in [Index -> fragments] : \A i, j \in Index : i < j => s[i].offset < s[j].offset

(* Mutant: only exact repetitions are recognised.                          *)
OverlapsExactly(f, g) == f.offset = g.offset /\ FragEnd(f) = FragEnd(g)

(* First write wins: a fragment that shares a byte with a stored one is    *)
(* dropped, the bytes it would have added included.                        *)
Overlaps(f, g) == f.offset < FragEnd(g) /\ FragEnd(f) > g.offset

(* update_contiguous_offset: fragments that begin within what is already   *)
(* contiguous extend it, in the order of their offsets.                    *)
Extend(current, f) ==
  IF f.offset <= current /\ FragEnd(f) > current THEN FragEnd(f) ELSE current

ContiguousOffset(fragments, from) ==
  LET s == InOrder(fragments)
      current[i \in 0..Len(s)] == IF i = 0 THEN from ELSE Extend(current[i - 1], s[i])
  IN current[Len(s)]

(* fragments.insert replaces what is stored at the same offset.            *)
Stored(r, f) ==
  LET fragments == {g \in r.fragments : g.offset # f.offset} \union {f}
  IN [r EXCEPT !.fragments = fragments,
               !.current_buffer_size = @ + Len(f.data),
               !.contiguous_offset = ContiguousOffset(fragments, @)]

(* add_fragment; the error of a full buffer is only logged by the callers. *)
AddFragment(r, f) ==
  IF r.current_buffer_size + Len(f.data) > max_buffer_size THEN r
  ELSE IF \E g \in r.fragments : Overlaps(f, g) THEN r
  ELSE Stored(r, f)

(* All of a sequence of fragments, one after the other.                    *)
AddAll(r, s) ==
  LET added[i \in 0..Len(s)] == IF i = 0 THEN r ELSE AddFragment(added[i - 1], s[i])
  IN added[Len(s)]

(* get_contiguous_data, <<>> where it returns None: each fragment gives    *)
(* the bytes after those already taken, until the contiguous offset.       *)
Take(result, f, limit) ==
  LET current == Len(result) IN
  IF current < limit /\ f.offset <= current /\ FragEnd(f) > current
  THEN result \o SubSeq(f.data, current - f.offset + 1, Len(f.data))
  ELSE result

ContiguousData(r) ==
  LET s == InOrder(r.fragments)
      result[i \in 0..Len(s)] ==
        IF i = 0 THEN <<>> ELSE Take(result[i - 1], s[i], r.contiguous_offset)
  IN result[Len(s)]

=============================================================================
