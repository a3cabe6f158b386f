------------------------------ MODULE FewShotPool ------------------------------
(***************************************************************************)
(* The few-shot examples of one agent (engine/feedback_loop.py): a sorted  *)
(* set in Redis that every well rated answer is added to.  A store is four *)
(* commands, with nothing between them to keep other stores out: add,      *)
(* renew the time to live, count, and remove as many of the lowest rated   *)
(* as were counted above Cap.                                              *)
(*                                                                         *)
(* Only the number of the examples is kept: adding one that is there makes *)
(* none more.  What a store runs into, and what it leaves when Redis fails *)
(* half-way, is a history.  MaxPool bounds what failed stores pile up.     *)
(***************************************************************************)
EXTENDS Naturals, FiniteSets

CONSTANTS
    Raters,  \* ratings stored at a time
    Cap,     \* the examples that are kept: 20
    MaxPool  \* bound: examples in the pool

ASSUME FewShotPoolAssumption ==
    /\ IsFiniteSet(Raters)
    /\ Cap \in Nat /\ MaxPool \in Nat

VARIABLES
    pool,         \* the number of examples
    lasting,      \* they have no time to live
    store,        \* what each store is doing
    poolTrimmed,  \* history: examples of this pool were removed
    mostExcess,   \* history: the most a store counted above Cap
    poolFailed,   \* history: a store broke off, and none ran alone since
    poolOverlaps, \* history: two stores overlapped
    poolAlone     \* history: the store that nothing has overlapped, if there is one

poolHistory == <<poolTrimmed, mostExcess, poolFailed, poolOverlaps, poolAlone>>
poolVars == <<pool, lasting, store, poolHistory>>

\* "added": to be renewed; "renewed": to be counted; "counted": excess more than Cap.
NotStoring == [step |-> "not storing"]
Storing == {r \in Raters : store[r].step # "not storing"}

FewShotPoolTypeOK ==
    /\ pool \in 0..MaxPool
    /\ {lasting, poolTrimmed, poolFailed, poolOverlaps} \subseteq BOOLEAN
    /\ mostExcess \in 0..MaxPool
    /\ store \in [Raters -> {NotStoring}
                    \cup [step : {"added", "renewed"}] \cup [step : {"counted"}, excess : Nat]]
    /\ poolAlone \subseteq Raters

\* r goes on with its next command.
GoesOn(r, s) == store' = [store EXCEPT ![r] = s]
-----------------------------------------------------------------------------
\* zadd.  The example may be there, with another rating.
AddExample(r) ==
    /\ store[r] = NotStoring
    /\ \E more \in {0, 1} :
         /\ pool = 0 => more = 1
         /\ pool + more <= MaxPool
         /\ pool' = pool + more
    /\ lasting' = (lasting \/ pool = 0)
    /\ GoesOn(r, [step |-> "added"])
    /\ poolAlone' = IF Storing = {} THEN {r} ELSE {}
    /\ poolOverlaps' = (poolOverlaps \/ Storing # {})
    /\ UNCHANGED <<poolTrimmed, mostExcess, poolFailed>>

\* expire, of what is left.
Renew(r) ==
    /\ store[r].step = "added"
    /\ lasting' = FALSE
    /\ GoesOn(r, [step |-> "renewed"])
    /\ UNCHANGED <<pool, poolHistory>>

\* The store is over; one that ran alone settles what others had left.
Stored(r) ==
    /\ GoesOn(r, NotStoring)
    /\ poolFailed' = (poolFailed /\ r \notin poolAlone)

\* Mutant of CountPool: a count of Cap is too much already.
CountAtCap(r) ==
    /\ store[r].step = "renewed"
    /\ \/ /\ pool >= Cap
          /\ GoesOn(r, [step |-> "counted", excess |-> pool + 1 - Cap])
          /\ mostExcess' = IF pool + 1 - Cap > mostExcess THEN pool + 1 - Cap ELSE mostExcess
          /\ UNCHANGED poolFailed
       \/ /\ pool < Cap
          /\ Stored(r) /\ UNCHANGED mostExcess
    /\ UNCHANGED <<pool, lasting, poolTrimmed, poolOverlaps, poolAlone>>

\* zcard, which may find nothing to remove.
CountPool(r) ==
    /\ store[r].step = "renewed"
    /\ \/ /\ pool > Cap
          /\ GoesOn(r, [step |-> "counted", excess |-> pool - Cap])
          /\ mostExcess' = IF pool - Cap > mostExcess THEN pool - Cap ELSE mostExcess
          /\ UNCHANGED poolFailed
       \/ /\ pool <= Cap
          /\ Stored(r) /\ UNCHANGED mostExcess
    /\ UNCHANGED <<pool, lasting, poolTrimmed, poolOverlaps, poolAlone>>

\* zremrangebyrank: as many as were counted, of those that are there.
Trim(r) ==
    /\ store[r].step = "counted"
    /\ pool' = IF pool > store[r].excess THEN pool - store[r].excess ELSE 0
    /\ lasting' = (lasting /\ pool' > 0)
    /\ poolTrimmed' = (pool' > 0 /\ (poolTrimmed \/ pool' < pool))
    /\ Stored(r)
    /\ UNCHANGED <<mostExcess, poolOverlaps, poolAlone>>

\* Redis fails: the rating counts, and the error is logged.
StoreFails(r) ==
    /\ r \in Storing
    /\ GoesOn(r, NotStoring)
    /\ poolFailed' = TRUE
    /\ UNCHANGED <<pool, lasting, poolTrimmed, mostExcess, poolOverlaps, poolAlone>>

\* Nothing was stored for seven days, or is about to be renewed.
PoolExpires ==
    /\ pool > 0
    /\ ~lasting
    /\ \A r \in Storing : store[r].step = "added"
    /\ pool' = 0
    /\ poolTrimmed' = FALSE
    /\ mostExcess' = 0
    /\ UNCHANGED <<lasting, store, poolFailed, poolOverlaps, poolAlone>>
-----------------------------------------------------------------------------
FewShotPoolInit ==
    /\ pool = 0
    /\ store = [r \in Raters |-> NotStoring]
    /\ mostExcess = 0
    /\ lasting = FALSE /\ poolTrimmed = FALSE
    /\ poolFailed = FALSE /\ poolOverlaps = FALSE /\ poolAlone = {}

FewShotPoolNext ==
    \/ PoolExpires
    \/ \E r \in Raters : AddExample(r) \/ Renew(r) \/ CountPool(r) \/ Trim(r) \/ StoreFails(r)
-----------------------------------------------------------------------------
(* The pool of an agent settles at Cap examples.                            *)
(*   - No more: but for the stores that are not over, or broke off, whoever *)
(*     added last counts everything; and the next store that runs alone     *)
(*     makes up for those that broke off.                                   *)
(*   - No less, once examples were removed, unless stores overlap: n of     *)
(*     them count the same ones too many and each remove them, which takes  *)
(*     n - 1 times as many good examples away, and never more.              *)
(*   - It expires unless a store is about to renew it or could not.         *)
PoolSettlesAtCap ==
    LET again == IF poolOverlaps THEN Cardinality(Raters) - 1 ELSE 0
    IN  /\ ~poolFailed => pool <= Cap + Cardinality(Storing)
        /\ poolTrimmed => pool + again * mostExcess >= Cap
        /\ lasting => poolFailed \/ \E r \in Storing : store[r].step = "added"
===============================================================================
