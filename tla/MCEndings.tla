------------------------------ MODULE MCEndings ------------------------------
(***************************************************************************)
(* Instances, for TLC, of the components whose operations must end however  *)
(* they are interleaved: the listener that broadcasts committed events,     *)
(* file finalization, and signup.  `part` is chosen in the initial state:   *)
(* that component runs, scheduled as its own specification says, while the  *)
(* others stay in an initial state.                                         *)
(***************************************************************************)
EXTENDS EventBroadcast, FileFinalization, Signup, TLC

CONSTANTS w1, w2, w3, u1,             \* writers of events
          o1, o2, p1,                 \* requests for one file
          s1, s2, s3, k1, k2, c1, c2  \* signups, keys, codes

VARIABLE part

StorePut(n) == [kind |-> "put", path |-> p1, len |-> n, token |-> None, admin |-> FALSE]
EndJobs == {StorePut(1), [StorePut(0) EXCEPT !.kind = "delete"]}
UnlimitedOnly == {None}
NothingCollides == {}

\* Keys and codes are alike: what the first signup asks for is fixed.
EndInit ==
  /\ part \in {"feed", "files", "signup"}
  /\ FeedInit /\ Init /\ SgInit
  /\ part # "files" => job = [o \in Ops |-> StorePut(1)]
  /\ part # "signup" => /\ ~tokenRequired /\ key = [s \in Signups |-> k1]
                        /\ code = [s \in Signups |-> None]
  /\ key[s1] = k1 /\ code[s1] # c2

EndNext ==
  \/ part = "feed" /\ FeedNext /\ UNCHANGED <<part, vars, sgVars>>
  \/ part = "files" /\ Next /\ UNCHANGED <<part, feedVars, sgVars>>
  \/ part = "signup" /\ SgNext /\ UNCHANGED <<part, feedVars, vars>>

\* PollFairness, Fairness and the fairness of SgFairSpec, of the component that runs.
EndFairness ==
  /\ WF_feedVars(part = "feed" /\ WakeUp)
  /\ SF_feedVars(part = "feed" /\ QueryBatch)
  /\ WF_feedVars(part = "feed" /\ BroadcastNext)
  /\ \A o \in Ops :
       /\ WF_vars(part = "files" /\ FinalizationStep(o))
       /\ WF_vars(part = "files" /\ ~Staged /\ (Execute(o) \/ NeverExecutes(o)))
  /\ \A s \in Signups : WF_sgVars(part = "signup" /\ SignupStep(s))

EndSpec == EndInit /\ [][EndNext]_<<part, feedVars, vars, sgVars>> /\ EndFairness
==============================================================================
