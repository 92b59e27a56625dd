-------------------------- MODULE GovernanceProofs --------------------------
(***************************************************************************)
(* Proofs about Governance, for any people, tickets, templates and drafts: *)
(* whatever needs a second person has had one.                             *)
(***************************************************************************)
EXTENDS Governance, SequenceTheorems, TLAPS

(* A ticket that was approved was approved by a second person.              *)
TicketsSound ==
    \A k \in TicketIds : tickets[k].approver # NoOne => Reviewed(k)

Inv == TypeOK /\ TicketsSound /\ FourEyes

-----------------------------------------------------------------------------
(* The fields that the proofs are about are fields of every draft.          *)
LEMMA DraftFields ==
    ASSUME NEW d \in Draft
    PROVE  /\ {"judge", "shape", "nested"} \subseteq DOMAIN d
           /\ d.shape \in Nat /\ d.nested \in Nat
  BY DEF Draft

(* A correction in place leaves the requests alone: the URL and methods are *)
(* not ephemeral fields.                                                    *)
LEMMA InPlaceKeepsShape ==
    ASSUME NEW a \in Aliases, NEW d \in Draft, InPlace(a, d)
    PROVE  d.shape = Newest(a).shape
  BY DraftFields DEF InPlace, Changed, EphemeralFields

(* A change of the requests, or of how answers are read, is reviewed.       *)
LEMMA ReviewCovers ==
    ASSUME NEW a \in Aliases, NEW d \in Draft, ~RequiresDualReview(a, d)
    PROVE  /\ versions[a] # <<>>
           /\ d.shape = Newest(a).shape /\ d.judge = Newest(a).judge
  BY DraftFields DEF RequiresDualReview, Changed, ForcedReviewFields

(* consume refuses a ticket nobody has approved.                            *)
LEMMA ConsumedIsReviewed ==
    ASSUME TicketsSound, NEW k \in TicketIds \cup {NoTicket},
           NEW action, NEW a, Consumable(k, action, a)
    PROVE  k \in TicketIds /\ Reviewed(k)
  BY DEF TicketsSound, Consumable

(* What the files hold is a list of at most one version.                    *)
LEMMA LoadedType ==
    /\ Loaded \in [Aliases -> Seq(Version)]
    /\ \A a \in Aliases : Len(Loaded[a]) <= MaxVersions
    /\ \A a \in Aliases :
          \/ Loaded[a] = <<>>
          \/ /\ Files[a] # <<>> /\ Len(Loaded[a]) = 1
             /\ Loaded[a][1].patches = {}
<1> SUFFICES ASSUME NEW a \in Aliases
             PROVE  /\ Loaded[a] \in Seq(Version)
                    /\ Len(Loaded[a]) <= MaxVersions
                    /\ \/ Loaded[a] = <<>>
                       \/ /\ Files[a] # <<>> /\ Len(Loaded[a]) = 1
                          /\ Loaded[a][1].patches = {}
  BY DEF Loaded
<1>1. CASE Files[a] = <<>>
  BY <1>1, BoundsAssumption DEF Loaded
<1>2. CASE Files[a] # <<>>
  <2>1. Files[a][1] \in Draft
    BY <1>2, DraftsAssumption
  <2>2. FromFile(Files[a][1]) \in Version
    BY <2>1 DEF FromFile, Version
  <2>3. Loaded[a] = <<FromFile(Files[a][1])>>
    BY <1>2 DEF Loaded
  <2> QED
    BY <1>2, <2>2, <2>3, BoundsAssumption DEF FromFile
<1> QED
  BY <1>1, <1>2

-----------------------------------------------------------------------------
(* The state after a start, which is also the one after a restart.          *)
Fresh ==
    /\ tickets = [k \in TicketIds |-> NoSuchTicket]
    /\ versions = Loaded /\ weights = NoWeights

LEMMA FreshInv == Fresh => Inv
<1> SUFFICES ASSUME Fresh PROVE Inv
  OBVIOUS
<1>1. TypeOK
  <2>1. (CHOOSE a \in Aliases : TRUE) \in Aliases
    BY TicketsAssumption
  <2>2. NoSuchTicket \in Ticket
    BY <2>1 DEF NoSuchTicket, Ticket, Actions
  <2>3. weights \in [Aliases -> [1 .. MaxVersions -> {"unset", "zero", "some"}]]
    BY DEF Fresh, NoWeights
  <2> QED
    BY <2>2, <2>3, LoadedType DEF Fresh, TypeOK
<1>2. TicketsSound
  BY DEF Fresh, TicketsSound, NoSuchTicket
<1>3. FourEyes
  <2> SUFFICES ASSUME NEW a \in Aliases, NEW n \in 1 .. Len(versions[a])
               PROVE  n = 1 /\ Files[a] # <<>> /\ versions[a][n].patches = {}
    BY DEF FourEyes
  <2> QED
    BY LoadedType DEF Fresh
<1> QED
  BY <1>1, <1>2, <1>3 DEF Inv

-----------------------------------------------------------------------------
(* Steps that touch tickets only.                                           *)
LEMMA TicketStep ==
    ASSUME Inv, NEW k \in TicketIds,
           \/ TicketExpires(k)
           \/ \E p \in Actors : Approve(k, p)
           \/ \E p \in Actors, action \in Actions, a \in Aliases :
                 CreateTicket(k, p, action, a)
    PROVE  Inv'
<1> USE DEF Inv
<1>0. UNCHANGED <<versions, weights>>
  BY DEF Approve, TicketExpires, CreateTicket
<1>1. /\ tickets'[k] \in Ticket
      /\ tickets'[k].approver # NoOne =>
            /\ tickets'[k].approver \in Approvers
            /\ tickets'[k].approver # tickets'[k].by
      /\ tickets' = [tickets EXCEPT ![k] = tickets'[k]]
  <2>0. tickets \in [TicketIds -> Ticket] /\ tickets[k] \in Ticket
    BY DEF TypeOK
  <2>1. ASSUME NEW p \in Actors, Approve(k, p)
        PROVE  /\ tickets'[k] \in Ticket /\ tickets'[k].approver \in Approvers
               /\ tickets'[k].approver # tickets'[k].by
               /\ tickets' = [tickets EXCEPT ![k] = tickets'[k]]
    BY <2>0, <2>1, PeopleAssumption DEF Ticket, Approve, MayApprove
  <2>2. CASE TicketExpires(k)
    BY <2>0, <2>2 DEF Ticket, TicketExpires, TicketsSound, Reviewed
  <2>3. ASSUME NEW p \in Actors, NEW action \in Actions, NEW a \in Aliases,
               CreateTicket(k, p, action, a)
        PROVE  /\ tickets'[k] \in Ticket /\ tickets'[k].approver = NoOne
               /\ tickets' = [tickets EXCEPT ![k] = tickets'[k]]
    BY <2>0, <2>3 DEF Ticket, CreateTicket
  <2> QED
    BY <2>1, <2>2, <2>3
<1>2. TypeOK'
  BY <1>0, <1>1 DEF TypeOK
<1>3. TicketsSound'
  BY <1>1 DEF TypeOK, TicketsSound, Reviewed
<1>4. FourEyes'
  BY <1>0 DEF FourEyes
<1> QED
  BY <1>2, <1>3, <1>4

(* A new version: what came before it stays, and what it changes was        *)
(* reviewed.                                                                *)
LEMMA PublishStep ==
    ASSUME Inv, NEW a \in Aliases, NEW d \in Draft,
           NEW k \in TicketIds \cup {NoTicket}, Publish(a, d, k)
    PROVE  Inv'
<1> USE DEF Inv
<1> DEFINE v == [draft |-> d, patches |-> {},
                 reviewed |-> RequiresDualReview(a, d) /\ Reviewed(k)]
           l == Len(versions[a])
<1>0. UNCHANGED <<tickets, weights>> /\ l < MaxVersions
      /\ versions' = [versions EXCEPT ![a] = Append(@, v)]
  BY DEF Publish
<1>1. v \in Version
  BY DEF Version
<1>2. versions[a] \in Seq(Version) /\ l \in Nat
  BY DEF TypeOK
<1>3. /\ Append(versions[a], v) \in Seq(Version)
      /\ Len(Append(versions[a], v)) = l + 1
      /\ Append(versions[a], v)[l + 1] = v
      /\ \A n \in 1 .. l : Append(versions[a], v)[n] = versions[a][n]
  BY <1>1, <1>2
<1> HIDE DEF v, l
<1>4. /\ Len(versions'[a]) = l + 1 /\ versions'[a][l + 1] = v
      /\ \A n \in 1 .. l : versions'[a][n] = versions[a][n]
      /\ \A b \in Aliases \ {a} : versions'[b] = versions[b]
      /\ versions' \in [Aliases -> Seq(Version)]
  BY <1>0, <1>3 DEF TypeOK
<1>5. TypeOK'
  BY <1>0, <1>2, <1>4, BoundsAssumption DEF TypeOK
<1>6. TicketsSound'
  BY <1>0 DEF TicketsSound, Reviewed
<1>7. RequiresDualReview(a, d) => v.reviewed
  BY ConsumedIsReviewed DEF Publish, v
<1>8. FourEyes'
  <2> SUFFICES ASSUME NEW b \in Aliases, NEW n \in 1 .. Len(versions'[b])
               PROVE  LET w == versions'[b][n]
                          first == n = 1
                          same(f) == w.draft[f] = versions'[b][n - 1].draft[f]
                      IN /\ (IF first THEN Files[b] = <<>> ELSE ~same("shape"))
                               => w.reviewed
                         /\ (~first /\ ~same("judge"))
                               => w.reviewed \/ w.patches # {}
                         /\ FALSE \notin w.patches
    BY DEF FourEyes
  <2>1. CASE b # a
    BY <1>4, <2>1 DEF FourEyes
  <2>2. CASE b = a /\ n <= l
    <3>1. n \in 1 .. l /\ (n # 1 => n - 1 \in 1 .. l)
      BY <2>2, <1>2
    <3>2. /\ versions'[b][n] = versions[b][n]
          /\ n # 1 => versions'[b][n - 1] = versions[b][n - 1]
      BY <1>4, <2>2, <3>1
    <3> QED
      BY <2>2, <3>1, <3>2 DEF FourEyes, l
  <2>3. CASE b = a /\ n = l + 1
    <3>1. versions'[b][n] = v
      BY <1>4, <2>3
    <3>2. v.draft = d /\ v.patches = {}
      BY DEF v
    <3>3. CASE RequiresDualReview(a, d)
      BY <1>7, <3>1, <3>2, <3>3
    <3>4. CASE ~RequiresDualReview(a, d)
      <4>1. /\ versions[a] # <<>>
            /\ d.shape = Newest(a).shape /\ d.judge = Newest(a).judge
        BY <3>4, ReviewCovers
      <4>2. l # 0
        BY <1>2, <4>1, EmptySeq DEF l
      <4>3. versions'[b][n - 1].draft = Newest(a)
        BY <1>2, <1>4, <2>3, <4>2 DEF Newest, l
      <4> QED
        BY <1>2, <2>3, <3>1, <3>2, <4>1, <4>2, <4>3
    <3> QED
      BY <3>3, <3>4
  <2>4. \/ b # a \/ (b = a /\ n <= l) \/ (b = a /\ n = l + 1)
    <3>1. b = a => n \in 1 .. l + 1
      BY <1>4
    <3>2. l \in Nat
      BY <1>2 DEF l
    <3> QED
      BY <3>1, <3>2
  <2> QED
    BY <2>1, <2>2, <2>3, <2>4
<1> QED
  BY <1>5, <1>6, <1>8

(* A correction: by a ticket that was approved, of the newest version, and  *)
(* never of the requests.                                                   *)
LEMMA PatchStep ==
    ASSUME Inv, NEW url \in Aliases, NEW a \in Aliases, NEW d \in Draft,
           NEW k \in TicketIds, Patch(url, a, d, k)
    PROVE  Inv'
<1> USE DEF Inv
<1> DEFINE l == Len(versions[a])
           old == versions[a][l]
           v == [draft |-> d, reviewed |-> old.reviewed,
                 patches |-> old.patches \cup {Reviewed(k)}]
<1>0. UNCHANGED <<tickets, weights>>
      /\ versions' = [versions EXCEPT ![a] = [@ EXCEPT ![l] = v]]
  BY DEF Patch
<1>1. Reviewed(k)
  BY ConsumedIsReviewed DEF Patch
<1>2. versions[a] \in Seq(Version) /\ l \in Nat
  BY DEF TypeOK
<1>3. l \in 1 .. l
  BY <1>2, EmptySeq DEF Patch, InPlace
<1>4. old \in Version
  BY <1>2, <1>3
<1>5. v \in Version /\ v.draft = d /\ v.reviewed = old.reviewed
      /\ v.patches = old.patches \cup {TRUE}
  BY <1>1, <1>4 DEF Version
<1>6. d.shape = old.draft.shape
  BY InPlaceKeepsShape DEF Patch, Newest
<1>7. /\ [versions[a] EXCEPT ![l] = v] \in Seq(Version)
      /\ Len([versions[a] EXCEPT ![l] = v]) = l
      /\ [versions[a] EXCEPT ![l] = v][l] = v
      /\ \A n \in 1 .. l :
            n # l => [versions[a] EXCEPT ![l] = v][n] = versions[a][n]
  <2> HIDE DEF v
  <2> QED
    BY <1>2, <1>3, <1>5
<1> HIDE DEF v
<1>8. /\ Len(versions'[a]) = l /\ versions'[a][l] = v
      /\ \A n \in 1 .. l : n # l => versions'[a][n] = versions[a][n]
      /\ \A b \in Aliases \ {a} : versions'[b] = versions[b]
      /\ versions' \in [Aliases -> Seq(Version)]
  BY <1>0, <1>7 DEF TypeOK
<1> HIDE DEF l, old
<1>9. TypeOK'
  BY <1>0, <1>2, <1>8 DEF TypeOK, l
<1>10. TicketsSound'
  BY <1>0 DEF TicketsSound, Reviewed
<1>11. FourEyes'
  <2> SUFFICES ASSUME NEW b \in Aliases, NEW n \in 1 .. Len(versions'[b])
               PROVE  LET w == versions'[b][n]
                          first == n = 1
                          same(f) == w.draft[f] = versions'[b][n - 1].draft[f]
                      IN /\ (IF first THEN Files[b] = <<>> ELSE ~same("shape"))
                               => w.reviewed
                         /\ (~first /\ ~same("judge"))
                               => w.reviewed \/ w.patches # {}
                         /\ FALSE \notin w.patches
    BY DEF FourEyes
  <2>1. CASE b # a
    BY <1>8, <2>1 DEF FourEyes
  <2>2. CASE b = a
    <3>1. n \in 1 .. l /\ (n # 1 => n - 1 \in 1 .. l /\ n - 1 # l)
      BY <1>2, <1>8, <2>2
    <3>2. n # 1 => versions'[a][n - 1] = versions[a][n - 1]
      BY <1>8, <3>1
    <3>3. CASE n # l
      BY <1>8, <2>2, <3>1, <3>2, <3>3 DEF FourEyes, l
    <3>4. CASE n = l
      <4>1. versions'[b][n] = v /\ versions[a][n] = old
        BY <1>8, <2>2, <3>4 DEF old
      <4> QED
        BY <1>5, <1>6, <2>2, <3>1, <3>2, <4>1 DEF FourEyes, l
    <3> QED
      BY <3>3, <3>4
  <2> QED
    BY <2>1, <2>2
<1> QED
  BY <1>9, <1>10, <1>11

(* Weights.                                                                 *)
LEMMA CanaryStep ==
    ASSUME Inv, NEW a \in Aliases, NEW n \in 1 .. MaxVersions,
           NEW weight \in {"zero", "some"}, SetCanary(a, n, weight)
    PROVE  Inv'
<1>1. UNCHANGED <<tickets, versions>>
  BY DEF SetCanary
<1>2. TicketsSound' /\ FourEyes'
  BY <1>1 DEF Inv, TicketsSound, Reviewed, FourEyes
<1>3. TypeOK'
  BY <1>1 DEF Inv, TypeOK, SetCanary
<1> QED
  BY <1>2, <1>3 DEF Inv

-----------------------------------------------------------------------------
LEMMA NextInv == Inv /\ [Next]_vars => Inv'
<1> SUFFICES ASSUME Inv, [Next]_vars PROVE Inv'
  OBVIOUS
<1>1. CASE UNCHANGED vars
  BY <1>1 DEF Inv, TypeOK, TicketsSound, Reviewed, FourEyes, vars
<1>2. CASE Restart
  <2>1. Fresh'
    BY <1>2 DEF Restart, Fresh
  <2>2. Fresh' => Inv'
    BY FreshInv, PTL
  <2> QED
    BY <2>1, <2>2
<1>3. ASSUME NEW k \in TicketIds, NEW p \in Actors,
             \/ Approve(k, p)
             \/ \E action \in Actions, a \in Aliases :
                   CreateTicket(k, p, action, a)
      PROVE  Inv'
  BY <1>3, TicketStep
<1>4. ASSUME NEW k \in TicketIds, TicketExpires(k) PROVE Inv'
  BY <1>4, TicketStep
<1>5. ASSUME NEW a \in Aliases, NEW d \in Drafts,
             NEW k \in TicketIds \cup {NoTicket}, Publish(a, d, k)
      PROVE  Inv'
  BY <1>5, PublishStep, DraftsAssumption
<1>6. ASSUME NEW a \in Aliases, NEW d \in Drafts, NEW url \in Aliases,
             NEW k \in TicketIds, Patch(url, a, d, k)
      PROVE  Inv'
  BY <1>6, PatchStep, DraftsAssumption
<1>7. ASSUME NEW a \in Canaried, NEW n \in 1 .. MaxVersions,
             NEW weight \in {"zero", "some"}, SetCanary(a, n, weight)
      PROVE  Inv'
  BY <1>7, CanaryStep, BoundsAssumption
<1> QED
  BY <1>1, <1>2, <1>3, <1>4, <1>5, <1>6, <1>7 DEF Next

LEMMA Invariance == Spec => []Inv
<1>1. Init => Inv
  BY FreshInv DEF Init, Fresh
<1> QED
  BY <1>1, NextInv, PTL DEF Spec

-----------------------------------------------------------------------------
(* Types: tickets, versions and weights stay what they are, whatever        *)
(* the console does.                                                        *)
THEOREM TypeCorrect == Spec => []TypeOK
<1>1. Inv => TypeOK
  BY DEF Inv
<1> QED
  BY <1>1, Invariance, PTL

(* A version that sends other requests, comes under a new alias or reads    *)
(* answers differently, and every correction, was approved by an approver   *)
(* who did not submit it, for any number of people and tickets, although    *)
(* tickets may be used again and for other drafts.                          *)
THEOREM SecondPerson == Spec => []FourEyes
<1>1. Inv => FourEyes
  BY DEF Inv
<1> QED
  BY <1>1, Invariance, PTL

=============================================================================
