------------------------------ MODULE KVStore ------------------------------
(***************************************************************************)
(* What the server relies on when it calls DB::Put: an abstract store.     *)
(* Calls wait, a group of waiting calls takes effect at once, a call is    *)
(* answered OK only after it took effect and with an error only if it did  *)
(* not and never will.  A crash forgets the calls and keeps the store.     *)
(***************************************************************************)
CONSTANTS Thread, Key

VARIABLES store, calls

kvVars == <<store, calls>>

NoCall == [waiting |-> FALSE]

(* The store may hold what an earlier run left. *)
StoreInit ==
  /\ DOMAIN store = Key
  /\ calls = [t \in Thread |-> NoCall]

Call(t) ==
  /\ calls[t] = NoCall
  /\ calls'[t].waiting /\ ~calls'[t].applied
  /\ \A u \in Thread \ {t} : calls'[u] = calls[u]
  /\ UNCHANGED store

(* The calls of G take effect together; of the calls of G that write the   *)
(* same key one is the last.                                               *)
Apply(G) ==
  /\ G # {}
  /\ \A t \in G : calls[t].waiting /\ ~calls[t].applied
  /\ calls' = [t \in Thread |-> IF t \in G THEN [calls[t] EXCEPT !.applied = TRUE]
                                           ELSE calls[t]]
  /\ \A k \in Key : IF \E t \in G : calls[t].key = k
                      THEN \E t \in G : calls[t].key = k /\ store'[k] = calls[t].val
                      ELSE store'[k] = store[k]
  /\ DOMAIN store' = Key

ReturnOK(t) ==
  /\ calls[t].waiting /\ calls[t].applied
  /\ calls' = [calls EXCEPT ![t] = NoCall]
  /\ UNCHANGED store

ReturnError(t) ==
  /\ calls[t].waiting /\ ~calls[t].applied
  /\ calls' = [calls EXCEPT ![t] = NoCall]
  /\ UNCHANGED store

Lost ==
  /\ calls' = [t \in Thread |-> NoCall]
  /\ UNCHANGED store

StoreNext ==
  \/ \E t \in Thread : Call(t) \/ ReturnOK(t) \/ ReturnError(t)
  \/ \E G \in SUBSET Thread : Apply(G)
  \/ Lost

StoreSpec == StoreInit /\ [][StoreNext]_kvVars
=============================================================================
