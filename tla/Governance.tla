----------------------------- MODULE Governance -----------------------------
(***************************************************************************)
(* How the console changes templates: approval tickets, the classification *)
(* of a change, publication of new versions and correction in place, and   *)
(* the weights that bind a channel to versions.                            *)
(*                                                                         *)
(* The registry, the tickets and the weights live in the console's process *)
(* (the rows it writes to the database are not read back), so handlers act *)
(* on them in one step, before their first await, and a restart brings     *)
(* back the templates of the files.  The gateway and the workers are other *)
(* processes with registries of their own: which version a task is bound   *)
(* to, and which one renders its requests, is not modelled here.           *)
(***************************************************************************)
EXTENDS Naturals, Sequences

CONSTANTS
    Actors,       \* people who use the console; roles are author and operator
    Approvers,    \* those who have the approver role as well
    NoOne,
    TicketIds,
    NoTicket,
    Aliases,
    Drafts,       \* templates people may submit
    Files,        \* the templates loaded from files, per alias (or none)
    Canaried,     \* bound of the model: the aliases whose weights are set
    MaxVersions   \* bound of the model on versions of an alias

(* What a change of a template is judged by: judge stands for status_field, *)
(* id_location and result_location; shape for the URL, methods, paths and   *)
(* the like; nested for what is inside extra_headers, request_body_template *)
(* and normalize; the verdict sets of terminal, strategy, capabilities and  *)
(* result_policy are there as far as validate looks at them.  located: the  *)
(* paths have their placeholders, base_url and callback_param are there;    *)
(* matching: confirmation by list_and_match, which needs normalize.fields   *)
(* (nested # 0).                                                            *)
Natives == {"done", "error", "gone"}
Draft == [judge : Nat, shape : Nat, nested : Nat,
          success : SUBSET Natives, failure : SUBSET Natives,
          expired : SUBSET Natives, located : BOOLEAN, attempts : Nat,
          matching : BOOLEAN, window : Nat,
          callback : BOOLEAN, source : {"poll", "callback"},
          mode : {"store", "passthrough", "redirect"}, permanent : BOOLEAN]

(* A version of a template, with a record of whether a second person        *)
(* approved its publication and each correction of it.                      *)
Version == [draft : Draft, reviewed : BOOLEAN, patches : SUBSET BOOLEAN]

ASSUME PeopleAssumption == Approvers \subseteq Actors /\ NoOne \notin Actors
ASSUME TicketsAssumption == NoTicket \notin TicketIds /\ Aliases # {}
ASSUME DraftsAssumption ==
    /\ Drafts \subseteq Draft
    /\ \A a \in Aliases : \/ Files[a] = <<>>
                          \/ Len(Files[a]) = 1 /\ Files[a][1] \in Draft
ASSUME BoundsAssumption ==
    MaxVersions \in Nat \ {0} /\ Canaried \subseteq Aliases

VARIABLES
    tickets,   \* ApprovalStore
    versions,  \* TemplateRegistry: the versions of each alias, from 1 on
    weights    \* channel_policies: the weights of an alias' versions

vars == <<tickets, versions, weights>>

(* A ticket for template.canary is looked at when the weight is written     *)
(* already; one more or less changes nothing.                               *)
Actions == {"template.publish", "template.patch"}
NoSuchTicket == [known |-> FALSE, action |-> "template.publish",
                 subject |-> CHOOSE a \in Aliases : TRUE, by |-> NoOne,
                 approver |-> NoOne, expired |-> FALSE]

(* Whether the person who approved a ticket may and did not submit it; kept *)
(* with each version for its publication and for its corrections.           *)
Reviewed(k) == /\ tickets[k].approver \in Approvers
               /\ tickets[k].approver # tickets[k].by

FromFile(d) == [draft |-> d, reviewed |-> FALSE, patches |-> {}]
Loaded == [a \in Aliases |-> IF Files[a] = <<>> THEN <<>>
                             ELSE <<FromFile(Files[a][1])>>]
NoWeights == [a \in Aliases |-> [n \in 1 .. MaxVersions |-> "unset"]]

Init ==
    /\ tickets = [k \in TicketIds |-> NoSuchTicket]
    /\ versions = Loaded /\ weights = NoWeights

-----------------------------------------------------------------------------
(* validate                                                                 *)

CheckPaths(d) == d.located /\ (d.source = "callback" => d.callback)
CheckTerminal(d) == /\ d.success # {} /\ d.failure # {}
                    /\ d.success \cap d.failure = {}
CheckCapabilities(d) == /\ (d.matching => d.nested # 0) /\ d.mode # "redirect"
                        /\ (d.mode = "passthrough" => d.permanent)
CheckStrategy(d) == d.attempts >= 1 /\ d.window > 0
Valid(d) == /\ CheckPaths(d) /\ CheckTerminal(d) /\ CheckCapabilities(d)
            /\ CheckStrategy(d)

-----------------------------------------------------------------------------
(* classify_change and plan_change                                          *)

EphemeralFields == {"judge", "success", "failure", "expired"}
ForcedReviewFields == {"judge", "shape", "located", "matching", "attempts",
                       "window", "callback", "source", "mode", "permanent"}

Changed(old, new) == {f \in DOMAIN new : old[f] # new[f]}

(* get: the newest version.                                                 *)
Newest(a) == versions[a][Len(versions[a])].draft

InPlace(a, d) == /\ versions[a] # <<>>
                 /\ Changed(Newest(a), d) \subseteq EphemeralFields

RequiresDualReview(a, d) ==
    \/ versions[a] = <<>>
    \/ Changed(Newest(a), d) \cap ForcedReviewFields # {}

-----------------------------------------------------------------------------
(* ApprovalStore                                                            *)

(* Faulty variant: action and subject change places.                        *)
CreateTicketSwapped(k, p, action, subject) ==
    /\ ~tickets[k].known
    /\ tickets' = [tickets EXCEPT ![k] =
          [known |-> TRUE, action |-> subject, subject |-> action, by |-> p,
           approver |-> NoOne, expired |-> FALSE]]
    /\ UNCHANGED <<versions, weights>>

CreateTicket(k, p, action, subject) ==
    /\ ~tickets[k].known
    /\ tickets' = [tickets EXCEPT ![k] =
          [known |-> TRUE, action |-> action, subject |-> subject, by |-> p,
           approver |-> NoOne, expired |-> FALSE]]
    /\ UNCHANGED <<versions, weights>>

(* require("approver"): roles come with the request.                        *)
MayApprove(p) == p \in Approvers

(* Faulty variant: the submitter may approve.                               *)
ApproveAny(k, p) ==
    /\ tickets[k].known /\ ~tickets[k].expired /\ MayApprove(p)
    /\ tickets' = [tickets EXCEPT ![k].approver = p]
    /\ UNCHANGED <<versions, weights>>

(* approve: by an approver, not the submitter, before it expires.           *)
Approve(k, p) ==
    /\ tickets[k].known /\ ~tickets[k].expired
    /\ tickets[k].by # p /\ MayApprove(p)
    /\ tickets' = [tickets EXCEPT ![k].approver = p]
    /\ UNCHANGED <<versions, weights>>

TicketExpires(k) ==
    /\ tickets[k].known /\ ~tickets[k].expired
    /\ tickets' = [tickets EXCEPT ![k].expired = TRUE]
    /\ UNCHANGED <<versions, weights>>

(* consume; the ticket stays and may be used again.                         *)
Consumable(k, action, subject) ==
    /\ k # NoTicket /\ tickets[k].known
    /\ tickets[k].approver # NoOne /\ ~tickets[k].expired
    /\ tickets[k].action = action /\ tickets[k].subject = subject

-----------------------------------------------------------------------------
(* publish_template, register: the next version.  A ticket is looked at     *)
(* only if the change requires review.                                      *)
Publish(a, d, k) ==
    /\ Valid(d) /\ Len(versions[a]) < MaxVersions
    /\ RequiresDualReview(a, d) => Consumable(k, "template.publish", a)
    /\ versions' = [versions EXCEPT ![a] = Append(@,
          [draft |-> d, patches |-> {},
           reviewed |-> RequiresDualReview(a, d) /\ Reviewed(k)])]
    /\ UNCHANGED <<tickets, weights>>

(* patch_template, patch_in_place: the newest version of the template that  *)
(* is named in the body; the ticket is for the one named in the URL.        *)
Patch(url, a, d, k) ==
    /\ InPlace(a, d)
    /\ Consumable(k, "template.patch", url)
    /\ Valid(d)
    /\ versions' = [versions EXCEPT ![a][Len(versions[a])] =
          [draft |-> d, reviewed |-> @.reviewed,
           patches |-> @.patches \cup {Reviewed(k)}]]
    /\ UNCHANGED <<tickets, weights>>

(* set_canary: the weight is written before the ticket is looked at; a      *)
(* refusal leaves it written.                                               *)
SetCanary(a, n, weight) ==
    /\ weights' = [weights EXCEPT ![a][n] = weight]
    /\ UNCHANGED <<tickets, versions>>

(* The process starts again: what was published, approved and weighted is   *)
(* gone.                                                                    *)
Restart ==
    /\ tickets' = [k \in TicketIds |-> NoSuchTicket]
    /\ versions' = Loaded /\ weights' = NoWeights

Next ==
    \/ \E k \in TicketIds :
          \/ \E p \in Actors : \/ Approve(k, p)
                               \/ \E action \in Actions, a \in Aliases :
                                     CreateTicket(k, p, action, a)
          \/ TicketExpires(k)
    \/ \E a \in Aliases, d \in Drafts :
          \/ \E k \in TicketIds \cup {NoTicket} : Publish(a, d, k)
          \/ \E url \in Aliases, k \in TicketIds : Patch(url, a, d, k)
    \/ \E a \in Canaried, n \in 1 .. MaxVersions, weight \in {"zero", "some"} :
          SetCanary(a, n, weight)
    \/ Restart

Spec == Init /\ [][Next]_vars

-----------------------------------------------------------------------------
Ticket == [known : BOOLEAN, action : Actions, subject : Aliases,
           by : Actors \cup {NoOne}, approver : Actors \cup {NoOne},
           expired : BOOLEAN]

(* Every variable keeps its type: tickets name an action and a template.     *)
TypeOK ==
    /\ tickets \in [TicketIds -> Ticket]
    /\ versions \in [Aliases -> Seq(Version)]
    /\ \A a \in Aliases : Len(versions[a]) <= MaxVersions
    /\ weights \in [Aliases -> [1 .. MaxVersions -> {"unset", "zero", "some"}]]

(* However publications, corrections and tickets alternate: a version that  *)
(* sends other requests than the one before it, or comes under a new alias, *)
(* was approved by a second person; one that reads answers differently was  *)
(* approved when it was published or corrected; and so was every            *)
(* correction.  (What is nested in extra_headers, request_body_template,    *)
(* normalize or terminal is published without: classify_change compares the *)
(* names of leaves.)                                                        *)
FourEyes ==
    \A a \in Aliases : \A n \in 1 .. Len(versions[a]) :
        LET v == versions[a][n]
            first == n = 1
            same(f) == v.draft[f] = versions[a][n - 1].draft[f]
        IN /\ (IF first THEN Files[a] = <<>> ELSE ~same("shape"))
                 => v.reviewed
           /\ (~first /\ ~same("judge"))
                 => v.reviewed \/ v.patches # {}
           /\ FALSE \notin v.patches

=============================================================================
