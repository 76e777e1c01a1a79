---------------------------- MODULE LightClient ----------------------------
(***************************************************************************)
(* What the VectorX contract promises to whoever reads it: a light client  *)
(* is a growing collection of facts about the finalized Avail chain and a  *)
(* trusted height.  There are no requests, gateways, function ids or       *)
(* proofs here: a fact is simply true of the chain, and a step may add it  *)
(* only when the facts already held lead to it.                            *)
(***************************************************************************)
EXTENDS Avail

VARIABLES
    finalized,    \* the height up to which the chain is final
    tip,          \* the trusted height
    headers,      \* facts <<height, header hash>>
    sets,         \* facts <<set id, hash of the set>>
    commitments   \* facts <<range, data root and state root commitment>>

lcVars == <<finalized, tip, headers, sets, commitments>>

HeaderFact(b) == <<b, HeaderHash[b]>>
SetFact(s) == <<s, AuthoritySetHash[s]>>
CommitmentFact(k) == <<k, DataRootCommitment[k], StateRootCommitment[k]>>

(* The ranges one proof can cover between two heights. *)
ShortRanges(a, b) ==
    {k \in Blocks \X Blocks :
        a <= k[1] /\ k[1] < k[2] /\ k[2] <= b /\ k[2] <= k[1] + MAX_NUM_HEADERS}

(* The ranges of P cover every block of (a, b], and none of them twice. *)
Tiles(P, a, b) ==
    \A c \in a + 1 .. b : \E k \in P :
        /\ k[1] < c /\ c <= k[2]
        /\ \A l \in P : l[1] < c /\ c <= l[2] => l = k

-----------------------------------------------------------------------------
LCInit ==
    /\ finalized \in Blocks
    /\ tip = 0
    /\ headers = {} /\ sets = {} /\ commitments = {}

(* The chain grows. *)
Finalize ==
    /\ finalized' \in finalized + 1 .. MaxBlock
    /\ UNCHANGED <<tip, headers, sets, commitments>>

(* The guardian vouches for a final height and the set stored there; this  *)
(* is also how a light client starts.                                      *)
Anchor(h) ==
    /\ h <= finalized
    /\ tip' = h
    /\ headers' = headers \cup {HeaderFact(h)}
    /\ sets' = sets \cup {SetFact(AuthoritySetId[h])}
    /\ UNCHANGED <<finalized, commitments>>

(* A proof links b to the trusted header: a known set justified b.         *)
Prove(b) ==
    /\ <<tip, b>> \in ShortRanges(tip, finalized)
    /\ HeaderFact(tip) \in headers
    /\ SetFact(JustifyingSet(b)) \in sets
    /\ tip' = b
    /\ headers' = headers \cup {HeaderFact(b)}
    /\ commitments' = commitments \cup {CommitmentFact(<<tip, b>>)}
    /\ UNCHANGED <<finalized, sets>>

(* The guardian vouches for everything between the trusted height and b,   *)
(* in ranges that a prover could have proved.                              *)
Fill(b) ==
    /\ tip < b /\ b <= finalized
    /\ HeaderFact(tip) \in headers
    /\ \E P \in SUBSET ShortRanges(tip, b) :
          /\ Tiles(P, tip, b)
          /\ headers' = headers \cup {HeaderFact(k[2]) : k \in P}
          /\ commitments' = commitments \cup {CommitmentFact(k) : k \in P}
    /\ tip' = b
    /\ sets' = sets \cup {SetFact(AuthoritySetId[b])}
    /\ UNCHANGED finalized

(* A known set hands over to the next one, which a final block announced.  *)
HandOver(s) ==
    /\ SetFact(s) \in sets
    /\ s + 1 <= AuthoritySetId[finalized]
    /\ sets' = sets \cup {SetFact(s + 1)}
    /\ UNCHANGED <<finalized, tip, headers, commitments>>

LCNext ==
    \/ Finalize
    \/ \E b \in Blocks : Anchor(b) \/ Prove(b) \/ Fill(b)
    \/ \E s \in SetIds : HandOver(s)

LCSpec == LCInit /\ [][LCNext]_lcVars
=============================================================================
