----------------------------- MODULE MCContracts -----------------------------
(***************************************************************************)
(* Retrieving contracts and using them in a tab.  The two machines touch   *)
(* only in the answer of a load, which ContractLoad takes in every form    *)
(* DeribitRetrieval gives it, so a behaviour explores one of them while    *)
(* the other rests.                                                        *)
(***************************************************************************)
EXTENDS DeribitRetrieval, ContractLoad

CONSTANTS r1, r2, a, b, c, A

VARIABLE focus

mcvars == <<rvars, lvars, focus>>

\* Two calls of one process: the first selects three instruments, among them an
\* expired one and one that never trades; the second shares the growing one.
MCJobs == r1 :> <<a, b, c>> @@ r2 :> <<a>>
MCCandidates == r1 :> {{a, b}, {b, c}} @@ r2 :> {{a}}
MCPrinted == a :> 0 @@ b :> 1 @@ c :> 0

MCInit ==
    /\ RetrievalInit /\ LoadInit
    /\ focus \in {"retrieval", "tab"}
    /\ focus = "retrieval" => event = A /\ \A e \in Event : store[e] = NoRecord

Retrieving == focus = "retrieval" /\ RetrievalNext /\ UNCHANGED <<lvars, focus>>
UsingTheTab == focus = "tab" /\ LoadNext /\ UNCHANGED <<rvars, focus>>
MCNext == Retrieving \/ UsingTheTab

MCSpec == MCInit /\ [][MCNext]_mcvars
          /\ \A r \in Resolve : WF_mcvars(focus = "retrieval" /\ Resolving(r)
                                          /\ UNCHANGED <<lvars, focus>>)

\* Every variable of the two machines keeps its type.
ContractTypes == RetrievalTypes /\ LoadTypes

\* Every resolve ends, however often its requests are throttled or refused.
EveryResolveEnds == focus = "retrieval" => ResolvesEnd
=============================================================================
