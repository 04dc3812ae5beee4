---------------------- MODULE SelectionStoreInvariants ----------------------
(* Why SelectionStore is right: the facts about requests in flight that make  *)
(* its properties inductive.  SelectionStoreProofs proves that every step     *)
(* preserves them.                                                            *)
EXTENDS SelectionStore

(* Phases in which a request holds a temporary name of its own, and in which  *)
(* its draft carries a reading of the clock.                                  *)
Named == {"fill", "rename", "unlink"}
Drafting == {"engine", "saveread", "open", "fill", "rename"}
Validated == Drafting \ {"engine"}

(* The clock only moves forward, so no two requests ever read the same        *)
(* millisecond for their temporary names...                                   *)
NamesDiffer ==
    /\ now >= 2
    /\ \A r \in Req : name[r][3] < now
    /\ \A r \in Req : pc[r] \in Named => name[r][3] # 0
    /\ \A r, q \in Req : (r # q /\ name[r][3] = name[q][3]) => name[r][3] = 0

(* ...so a rename moves the file its own request wrote, completely.           *)
LandedWhole ==
    /\ target # NoFile => target \in landed
    /\ target = NoFile => landed = {}
    /\ landed \cap Req \subseteq filled
    /\ \A r \in Req : pc[r] = "rename" => r \in filled
    /\ \A r \in Req : r \in landed <=> pc[r] = "saved"

DiskInv == NamesDiffer /\ LandedWhole

(* Nor do two drafts carry the same stamp, or that of the first file.         *)
StampsDiffer ==
    /\ seed # Malformed => seed.version = 1
    /\ \A r \in Req : draft[r].version < now /\ draft[r].version # 1
    /\ \A r \in Req : pc[r] \in Drafting \cup {"saved"} => draft[r].version # 0
    /\ \A r, q \in Req :
          (r # q /\ draft[r].version = draft[q].version) => draft[r].version = 0

(* Whatever is on its way to the disk passed validation.                      *)
DraftsValid ==
    /\ seed # Malformed => Valid(seed.events)
    /\ \A r \in Req :
          pc[r] \in Validated \cup {"saved"} => Valid(draft[r].events)

(* Nobody gets past the read of a malformed file.                             *)
MalformedStops ==
    (Original \in landed /\ seed = Malformed) =>
        /\ target = Original
        /\ \A r \in Req : pc[r] \notin InFlight \cup {"saved"}

(* What is on its way to the disk is an edit of a store that was readable.    *)
DraftsEdit == \A r \in Req :
    /\ pc[r] \in {"prime", "engine", "saveread"} => kind[r] \in Refresh
    /\ pc[r] \in Drafting =>
        /\ base[r] \in Published
        /\ kind[r] \in Refresh =>
              SameStructure(base[r].events, draft[r].events)
        /\ kind[r] # "save" => Contract!Edit(base[r].events, draft[r].events)
        /\ kind[r] = "save" =>
              \E view \in Published : Contract!Rename(view.events, draft[r].events)

(* The version a client names is compared with the store the draft is made of.*)
Expected ==
    \A r \in Req :
        /\ pc[r] \in {"idle", "prime"} => match[r] = NoMatch
        /\ (pc[r] \in Drafting /\ match[r] # NoMatch) =>
              kind[r] # "save" /\ match[r] = base[r].version

(* All of them. *)
InFlightConsistent ==
    /\ DiskInv
    /\ StampsDiffer
    /\ DraftsValid
    /\ MalformedStops
    /\ DraftsEdit
    /\ Expected
=============================================================================
