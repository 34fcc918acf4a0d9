--------------------------- MODULE MetaDraft_proofs ---------------------------
(***************************************************************************)
(* For every number of requests and every set of start times: no stage of  *)
(* a draft is made twice, but for the POSTs Meta carries out late.         *)
(***************************************************************************)
EXTENDS MetaDraft, TLAPS

USE MetaDraftAssumption

DraftIInv == DraftTypeOK /\ DraftKept /\ StageMadeOnce

-----------------------------------------------------------------------------
\* The operators the model is built from.

LEMMA StageFacts ==
  /\ Stages = {"campaign", "creative", "adset", "ad"}
  /\ NoId \notin Requests
  /\ \A s \in Stages : Parents(s) \subseteq Stages \ {s}
  /\ "campaign" \in Parents("adset") /\ "adset" \in Parents("ad")
  /\ "campaign" \in Parents("creative") /\ "adset" \in Parents("creative")
  /\ "creative" \in Parents("ad")
BY DEF Stages, NoId, Requests, Parents

LEMMA ObjectFacts ==
  /\ \A o \in Objects : o[1] \in Stages /\ o[2] \in Requests /\ o = <<o[1], o[2]>>
  /\ \A s \in Stages, r \in Requests : <<s, r>> \in Objects
BY DEF Objects

\* A stage is posted after its parents.
LEMMA FirstMissingFacts ==
  ASSUME NEW r \in Requests
  PROVE  /\ FirstMissing(r) \in Stages
         /\ Missing(r) # {} =>
              FirstMissing(r) \in Missing(r) /\ Parents(FirstMissing(r)) \cap Missing(r) = {}
BY DEF FirstMissing, Missing, Parents, Stages

LEMMA UnknownFacts ==
  /\ Unknown("ended") = {} /\ Unknown("post") = {} /\ Unknown("wait") = {}
  /\ Unknown("verify") = {} /\ Unknown("reverify") = {}
  /\ Unknown("new") = Stages /\ Unknown("prepare") = Stages /\ Unknown("discover") = Stages
  /\ Unknown("duplicates") = Stages /\ Unknown("campaign") = Stages
  /\ Unknown("adsets") = {"creative", "adset", "ad"}
  /\ Unknown("creative") = {"creative", "adset", "ad"}
  /\ Unknown("adset") = {"adset", "ad"} /\ Unknown("ad") = {"ad"}
<1>1. /\ Unknown("ended") = {} /\ Unknown("post") = {} /\ Unknown("wait") = {}
      /\ Unknown("verify") = {} /\ Unknown("reverify") = {}
  BY DEF Unknown
<1>2. /\ Unknown("new") = Stages /\ Unknown("prepare") = Stages /\ Unknown("discover") = Stages
      /\ Unknown("duplicates") = Stages /\ Unknown("campaign") = Stages
  BY DEF Unknown
<1>3. Unknown("adsets") = {"creative", "adset", "ad"}
  BY DEF Unknown
<1>4. Unknown("creative") = {"creative", "adset", "ad"}
  BY DEF Unknown
<1>5. Unknown("adset") = {"adset", "ad"} /\ Unknown("ad") = {"ad"}
  BY DEF Unknown
<1> QED
  BY <1>1, <1>2, <1>3, <1>4, <1>5

LEMMA LookedFacts ==
  /\ Looked("ended") = {} /\ Looked("verify") = {} /\ Looked("reverify") = {}
  /\ Looked("post") = Stages /\ Looked("wait") = Stages
  /\ Looked("new") = {} /\ Looked("prepare") = {} /\ Looked("discover") = {}
  /\ Looked("duplicates") = {} /\ Looked("campaign") = {} /\ Looked("adsets") = {}
  /\ Looked("creative") = {"campaign"}
  /\ Looked("adset") = {"campaign", "creative"}
  /\ Looked("ad") = {"campaign", "creative", "adset"}
BY DEF Looked

-----------------------------------------------------------------------------
\* The invariant, request by request.

PostsOf(r) ==
    \A s \in Stages :
        /\ <<s, r>> \in posting \cup objects =>
              /\ draftPc[r] \in {"post", "wait", "verify", "reverify", "ended"}
              /\ Parents(s) \cap Missing(r) = {}
        /\ <<s, r>> \in posting /\ draftPc[r] # "ended" =>
              draftPc[r] = "wait" /\ s = FirstMissing(r) /\ s \in Missing(r)
        /\ ~(<<s, r>> \in posting /\ <<s, r>> \in objects)
        /\ <<s, r>> \in objects /\ s \in Missing(r) =>
              \/ draftPc[r] = "ended"
              \/ draftPc[r] = "wait" /\ s = FirstMissing(r)

IdsOf(r) ==
    /\ \A s \in Stages : ids[r][s] # NoId => <<s, ids[r][s]>> \in objects
    /\ Unknown(draftPc[r]) \subseteq Missing(r)
    /\ draftPc[r] = "adsets" => "campaign" \notin Missing(r)
    /\ draftKind = "oneshot" => ids[r]["adset"] \in {NoId, r}
    /\ \A q \in Requests, s \in Stages :
          q # r /\ startOf[r] = startOf[q] /\ draftPc[q] # "ended" => ids[r][s] # q

LookedOf(r) ==
    /\ \A s \in Looked(draftPc[r]) \cap Missing(r) : Overlooked(r, s) = {}
    /\ draftPc[r] = "adsets" =>
          \A q \in Overlooked(r, "creative") : ids[q]["campaign"] = ids[r]["campaign"]

KindOf(r) ==
    /\ draftPc[r] \in Stages => draftKind = "route"
    /\ draftPc[r] \in {"duplicates", "adsets"} => draftKind = "oneshot"

OneActiveOnly ==
    /\ \A r, q \in Requests : Active(r) /\ Active(q) /\ startOf[r] = startOf[q] => r = q
    /\ draftKind = "route" => \A r \in Requests : Active(r) => startOf[r] \in held
    /\ draftKind = "oneshot" =>
          /\ \A r, q \in Requests : startOf[r] = startOf[q]
          /\ \A r \in Requests : Active(r) => oneShotStarted

DraftParts ==
    OneActiveOnly /\ \A r \in Requests : KindOf(r) /\ PostsOf(r) /\ IdsOf(r) /\ LookedOf(r)

LEMMA Parts == DraftTypeOK => (DraftKept <=> DraftParts)
<1> SUFFICES ASSUME DraftTypeOK PROVE DraftKept <=> DraftParts
  OBVIOUS
<1>1. OneActive <=> OneActiveOnly /\ \A r \in Requests : KindOf(r)
  BY DEF OneActive, OneActiveOnly, KindOf
<1>2. \A o \in posting \cup objects : o \in Objects
  BY DEF DraftTypeOK
<1>3. NothingOverlooked <=> \A r \in Requests : LookedOf(r)
  BY DEF NothingOverlooked, LookedOf
<1>4. PostsKept /\ IdsKept => \A r \in Requests : PostsOf(r) /\ IdsOf(r)
  <2> SUFFICES ASSUME PostsKept, IdsKept, NEW r \in Requests PROVE PostsOf(r) /\ IdsOf(r)
    OBVIOUS
  <2>1. PostsOf(r)
    <3> SUFFICES ASSUME NEW s \in Stages
                 PROVE  /\ <<s, r>> \in posting \cup objects =>
                             /\ draftPc[r] \in {"post", "wait", "verify", "reverify", "ended"}
                             /\ Parents(s) \cap Missing(r) = {}
                        /\ <<s, r>> \in posting /\ draftPc[r] # "ended" =>
                             draftPc[r] = "wait" /\ s = FirstMissing(r) /\ s \in Missing(r)
                        /\ ~(<<s, r>> \in posting /\ <<s, r>> \in objects)
                        /\ <<s, r>> \in objects /\ s \in Missing(r) =>
                             \/ draftPc[r] = "ended"
                             \/ draftPc[r] = "wait" /\ s = FirstMissing(r)
      BY DEF PostsOf
    <3> DEFINE o == <<s, r>>
    <3>1. o[1] = s /\ o[2] = r
      OBVIOUS
    <3> HIDE DEF o
    <3>2. /\ o \in posting \cup objects =>
               /\ draftPc[r] \in {"post", "wait", "verify", "reverify", "ended"}
               /\ Parents(s) \cap Missing(r) = {}
          /\ o \in posting /\ draftPc[r] # "ended" =>
               draftPc[r] = "wait" /\ s = FirstMissing(r) /\ s \in Missing(r)
          /\ ~(o \in posting /\ o \in objects)
          /\ o \in objects /\ s \in Missing(r) =>
               \/ draftPc[r] = "ended"
               \/ draftPc[r] = "wait" /\ s = FirstMissing(r)
      BY <3>1 DEF PostsKept, IdsKept
    <3> QED
      BY <3>2 DEF o
  <2>2. IdsOf(r)
    BY DEF IdsKept, IdsOf
  <2> QED
    BY <2>1, <2>2
<1>5. (\A r \in Requests : PostsOf(r) /\ IdsOf(r)) => PostsKept /\ IdsKept
  <2> SUFFICES ASSUME \A r \in Requests : PostsOf(r) /\ IdsOf(r)
               PROVE  PostsKept /\ IdsKept
    OBVIOUS
  <2>1. ASSUME NEW o \in posting \cup objects
        PROVE  /\ draftPc[o[2]] \in {"post", "wait", "verify", "reverify", "ended"}
               /\ Parents(o[1]) \cap Missing(o[2]) = {}
               /\ o \in posting /\ draftPc[o[2]] # "ended" =>
                    draftPc[o[2]] = "wait" /\ o[1] = FirstMissing(o[2]) /\ o[1] \in Missing(o[2])
               /\ ~(o \in posting /\ o \in objects)
               /\ o \in objects /\ o[1] \in Missing(o[2]) =>
                    \/ draftPc[o[2]] = "ended"
                    \/ draftPc[o[2]] = "wait" /\ o[1] = FirstMissing(o[2])
    <3> DEFINE s == o[1]
               r == o[2]
    <3>1. s \in Stages /\ r \in Requests /\ o = <<s, r>>
      BY <1>2, ObjectFacts
    <3> HIDE DEF s, r
    <3>2. PostsOf(r)
      BY <3>1
    <3>3. /\ draftPc[r] \in {"post", "wait", "verify", "reverify", "ended"}
          /\ Parents(s) \cap Missing(r) = {}
          /\ o \in posting /\ draftPc[r] # "ended" =>
               draftPc[r] = "wait" /\ s = FirstMissing(r) /\ s \in Missing(r)
          /\ ~(o \in posting /\ o \in objects)
          /\ o \in objects /\ s \in Missing(r) =>
               \/ draftPc[r] = "ended"
               \/ draftPc[r] = "wait" /\ s = FirstMissing(r)
      BY <3>1, <3>2 DEF PostsOf
    <3> QED
      BY <3>3 DEF s, r
  <2>2. PostsKept
    BY <2>1 DEF PostsKept
  <2>3. IdsKept
    BY <2>1 DEF IdsKept, IdsOf
  <2> QED
    BY <2>2, <2>3
<1> QED
  BY <1>1, <1>3, <1>4, <1>5 DEF DraftKept, DraftParts

LEMMA PartsPrimed == DraftTypeOK' => (DraftKept' <=> DraftParts')
<1> QED
  BY Parts, PTL

-----------------------------------------------------------------------------
\* What a request that is under way excludes.

\* Nothing of another request of its start time that has not ended is at Meta.
LEMMA NotFresh ==
  ASSUME DraftTypeOK, DraftParts, NEW r \in Requests, NEW q \in Requests, NEW s \in Stages,
         Active(r), q # r, startOf[r] = startOf[q], draftPc[q] # "ended"
  PROVE  <<s, q>> \notin objects
<1>1. ~Active(q)
  BY DEF DraftParts, OneActiveOnly
<1>2. draftPc[q] = "new"
  BY <1>1 DEF Active
<1> QED
  BY <1>2 DEF DraftParts, PostsOf

\* A step of one request that is under way: it may end, but nothing else of the others
\* changes, and of its own objects no parent.
RequestMove(r) ==
    /\ Active(r)
    /\ draftPc'[r] # "new"
    /\ \A q \in Requests \ {r} : draftPc'[q] = draftPc[q] /\ ids'[q] = ids[q]
    /\ UNCHANGED <<objects, late, startOf, draftKind, oneShotStarted>>
    /\ posting' \in {posting, posting \cup {<<FirstMissing(r), r>>}}
    /\ \A s \in Stages : <<s, r>> \in objects =>
          \A p \in Parents(s) : ids'[r][p] = ids[r][p]
    /\ held' = held \/ (draftPc'[r] = "ended" /\ held' = held \ {startOf[r]})

LEMMA MoveOneActive ==
  ASSUME DraftTypeOK, DraftParts, NEW r \in Requests, RequestMove(r)
  PROVE  OneActiveOnly'
<1>1. \A q \in Requests : Active(q)' => Active(q)
  BY DEF RequestMove, Active
<1>2. ASSUME NEW q \in Requests, Active(q)', held' = held \ {startOf[r]}, draftPc'[r] = "ended"
      PROVE  startOf[q] # startOf[r]
  <2>1. q # r /\ Active(q) /\ Active(r)
    BY <1>1, <1>2 DEF Active, RequestMove
  <2> QED
    BY <2>1 DEF DraftParts, OneActiveOnly
<1>3. draftKind' = "route" => \A q \in Requests : Active(q)' => startOf'[q] \in held'
  BY <1>1, <1>2 DEF RequestMove, DraftParts, OneActiveOnly
<1>4. \A a, q \in Requests :
         Active(a)' /\ Active(q)' /\ startOf'[a] = startOf'[q] => a = q
  BY <1>1 DEF RequestMove, DraftParts, OneActiveOnly
<1>5. draftKind' = "oneshot" =>
         /\ \A a, q \in Requests : startOf'[a] = startOf'[q]
         /\ \A a \in Requests : Active(a)' => oneShotStarted'
  BY <1>1 DEF RequestMove, DraftParts, OneActiveOnly
<1> QED
  BY <1>3, <1>4, <1>5 DEF OneActiveOnly

\* What another request of the same start time made stays as it is.
LEMMA SameOverlooked ==
  ASSUME NEW q \in Requests, NEW s \in Stages, objects' = objects, late' = late,
         startOf' = startOf, ids'[q] = ids[q],
         \A p \in Requests : startOf[p] = startOf[q] => ids'[p] = ids[p]
  PROVE  Overlooked(q, s)' = Overlooked(q, s)
BY DEF Overlooked, SameParent

LEMMA MoveOthers ==
  ASSUME DraftTypeOK, DraftParts, NEW r \in Requests, RequestMove(r),
         NEW q \in Requests, q # r
  PROVE  KindOf(q)' /\ PostsOf(q)' /\ IdsOf(q)' /\ LookedOf(q)'
<1>1. draftPc'[q] = draftPc[q] /\ ids'[q] = ids[q] /\ startOf' = startOf /\ objects' = objects
      /\ late' = late /\ draftKind' = draftKind
  BY DEF RequestMove
<1>2. \A s \in Stages : <<s, q>> \in posting' <=> <<s, q>> \in posting
  BY DEF RequestMove
<1>3. KindOf(q) /\ PostsOf(q) /\ IdsOf(q) /\ LookedOf(q)
  BY DEF DraftParts
<1>4. Missing(q)' = Missing(q) /\ FirstMissing(q)' = FirstMissing(q)
  BY <1>1 DEF Missing, FirstMissing
<1>5. KindOf(q)'
  BY <1>1, <1>3 DEF KindOf
<1>6. PostsOf(q)'
  BY <1>1, <1>2, <1>3, <1>4 DEF PostsOf
<1>7. IdsOf(q)'
  <2>1. \A p \in Requests : draftPc'[p] # "ended" => draftPc[p] # "ended"
    BY DEF RequestMove, Active
  <2> QED
    BY <1>1, <1>3, <1>4, <2>1 DEF IdsOf
<1>8. LookedOf(q)'
  <2>1. CASE Active(q)
    <3>1. startOf[r] # startOf[q]
      BY <2>1 DEF DraftParts, OneActiveOnly, RequestMove
    <3>2. \A p \in Requests : startOf[p] = startOf[q] => ids'[p] = ids[p]
      BY <3>1 DEF RequestMove
    <3>3. \A s \in Stages : Overlooked(q, s)' = Overlooked(q, s)
      BY <1>1, <3>2, SameOverlooked
    <3>4. \A p \in Overlooked(q, "creative") : ids'[p] = ids[p]
      BY <3>2 DEF Overlooked
    <3>5. "creative" \in Stages /\ Missing(q) \subseteq Stages
      BY DEF Stages, Missing
    <3> QED
      BY <1>1, <1>3, <1>4, <3>3, <3>4, <3>5 DEF LookedOf
  <2>2. CASE ~Active(q)
    <3>1. Looked(draftPc'[q]) = {} /\ draftPc'[q] # "adsets"
      BY <1>1, <2>2, LookedFacts DEF Active
    <3> QED
      BY <3>1 DEF LookedOf
  <2> QED
    BY <2>1, <2>2
<1> QED
  BY <1>5, <1>6, <1>7, <1>8

\* Objects that had the same parent still have, and no others do.
LEMMA MoveStages ==
  ASSUME DraftTypeOK, StageMadeOnce, NEW r \in Requests, RequestMove(r)
  PROVE  StageMadeOnce'
<1> SUFFICES ASSUME NEW a \in objects, NEW b \in objects, a # b,
                    startOf[a[2]] = startOf[b[2]], SameParent(a, b)'
             PROVE  a \in late \/ b \in late
  BY DEF StageMadeOnce, RequestMove
<1>1. a \in Objects /\ b \in Objects
  BY DEF DraftTypeOK
<1>2. ASSUME NEW o \in objects, NEW p \in Parents(o[1])
      PROVE  ids'[o[2]][p] = ids[o[2]][p]
  <2>1. o[1] \in Stages /\ o[2] \in Requests /\ o = <<o[1], o[2]>>
    BY ObjectFacts DEF DraftTypeOK
  <2>2. CASE o[2] = r
    BY <1>2, <2>1, <2>2 DEF RequestMove
  <2>3. CASE o[2] # r
    BY <2>1, <2>3 DEF RequestMove
  <2> QED
    BY <2>2, <2>3
<1>3. SameParent(a, b)
  BY <1>2, StageFacts DEF SameParent
<1> QED
  BY <1>3 DEF StageMadeOnce

LEMMA RequestStep ==
  ASSUME DraftIInv, NEW r \in Requests, RequestMove(r), DraftTypeOK',
         KindOf(r)', PostsOf(r)', IdsOf(r)', LookedOf(r)'
  PROVE  DraftIInv'
<1>1. DraftTypeOK /\ DraftParts /\ StageMadeOnce
  BY Parts DEF DraftIInv
<1>2. DraftParts'
  BY <1>1, MoveOneActive, MoveOthers DEF DraftParts
<1>3. DraftKept'
  BY <1>2, PartsPrimed
<1> QED
  BY <1>1, <1>3, MoveStages DEF DraftIInv

-----------------------------------------------------------------------------
\* The steps of a request.

\* Every way out.
LEMMA EndStep ==
  ASSUME DraftIInv, NEW r \in Requests, Active(r),
         NEW answer \in {"blocked", "failed", "created"}, DraftEnd(r, answer),
         UNCHANGED <<objects, posting, late>>, activated' \subseteq activated
  PROVE  DraftIInv'
<1>1. DraftTypeOK /\ DraftParts
  BY Parts DEF DraftIInv
<1> USE DEF DraftEnd, draftServer
<1>2. DraftTypeOK'
  BY <1>1 DEF DraftTypeOK
<1>3. /\ draftPc'[r] = "ended" /\ ids' = ids /\ objects' = objects /\ posting' = posting
      /\ draftKind' = draftKind /\ startOf' = startOf
  BY <1>1 DEF DraftTypeOK
<1>4. RequestMove(r)
  BY <1>1, <1>3 DEF RequestMove, DraftTypeOK
<1>5. KindOf(r)'
  BY <1>3 DEF KindOf, Stages
<1>6. Missing(r)' = Missing(r)
  BY <1>3 DEF Missing
<1>7. PostsOf(r)'
  BY <1>1, <1>3, <1>6 DEF DraftParts, PostsOf
<1>8. IdsOf(r)'
  <2>1. \A q \in Requests : draftPc'[q] # "ended" => draftPc[q] # "ended"
    BY <1>3, <1>4 DEF RequestMove
  <2> QED
    BY <1>1, <1>3, <1>6, <2>1, UnknownFacts DEF DraftParts, IdsOf
<1>9. LookedOf(r)'
  BY <1>3, LookedFacts DEF LookedOf
<1> QED
  BY <1>2, <1>4, <1>5, <1>7, <1>8, <1>9, RequestStep

\* A step that only goes on.
LEMMA QuietStep ==
  ASSUME DraftIInv, NEW r \in Requests, Active(r), draftPc[r] # "wait",
         NEW to \in {"discover", "campaign", "duplicates", "creative", "adset", "post",
                     "verify", "reverify"},
         DraftGoto(r, to), ids' = ids, UNCHANGED <<objects, posting, late>>,
         activated' \subseteq activated,
         to \in {"campaign", "creative", "adset"} => draftKind = "route",
         to = "duplicates" => draftKind = "oneshot",
         Unknown(to) \subseteq Missing(r),
         to \in {"post", "verify", "reverify"} \/ draftPc[r] \notin {"post", "verify", "reverify"},
         \A s \in Looked(to) \cap Missing(r) : Overlooked(r, s) = {}
  PROVE  DraftIInv'
<1>1. DraftTypeOK /\ DraftParts
  BY Parts DEF DraftIInv
<1> USE DEF DraftGoto, draftServer
<1>2. DraftTypeOK'
  BY <1>1 DEF DraftTypeOK, Stages
<1>3. /\ draftPc'[r] = to /\ ids' = ids /\ objects' = objects /\ posting' = posting
      /\ late' = late /\ draftKind' = draftKind /\ startOf' = startOf
  BY <1>1 DEF DraftTypeOK
<1>4. RequestMove(r)
  BY <1>1, <1>3 DEF RequestMove, DraftTypeOK
<1>5. KindOf(r)'
  BY <1>3 DEF KindOf, Stages
<1>6. Missing(r)' = Missing(r)
  BY <1>3 DEF Missing
<1>7. PostsOf(r)'
  <2>1. \A s \in Stages : <<s, r>> \notin posting
    BY <1>1 DEF DraftParts, PostsOf, Active
  <2>2. \A s \in Stages : <<s, r>> \in objects =>
           to \in {"post", "verify", "reverify"} /\ s \notin Missing(r)
    BY <1>1 DEF DraftParts, PostsOf, Active
  <2> QED
    BY <1>1, <1>3, <1>6, <2>1, <2>2 DEF DraftParts, PostsOf
<1>8. IdsOf(r)'
  <2>1. \A q \in Requests : draftPc'[q] # "ended" => draftPc[q] # "ended"
    BY <1>3, <1>4 DEF RequestMove, Active
  <2> QED
    BY <1>1, <1>3, <1>6, <2>1 DEF DraftParts, IdsOf
<1>9. LookedOf(r)'
  <2>1. \A s \in Stages : Overlooked(r, s)' = Overlooked(r, s)
    BY <1>3, SameOverlooked
  <2>2. Missing(r) \subseteq Stages /\ to # "adsets"
    BY DEF Missing
  <2> QED
    BY <1>3, <1>6, <2>1, <2>2 DEF LookedOf
<1> QED
  BY <1>2, <1>4, <1>5, <1>7, <1>8, <1>9, RequestStep

-----------------------------------------------------------------------------
\* The actions.

\* What is known of a request that is under way.
LEMMA RequestFacts ==
  ASSUME DraftIInv, NEW r \in Requests
  PROVE  /\ DraftTypeOK /\ DraftParts
         /\ KindOf(r) /\ PostsOf(r) /\ IdsOf(r) /\ LookedOf(r)
         /\ Missing(r) \subseteq Stages
         /\ \A s \in Stages : s \in Missing(r) <=> ids[r][s] = NoId
         /\ \A s \in Stages : ids[r][s] \in Requests \cup {NoId}
<1>1. DraftTypeOK /\ DraftParts
  BY Parts DEF DraftIInv
<1> QED
  BY <1>1 DEF DraftParts, Missing, DraftTypeOK

LEMMA PrepareStep ==
  ASSUME DraftIInv, NEW r \in Requests, DraftPrepare(r) \/ DraftDiscover(r)
  PROVE  DraftIInv'
<1>1. UNCHANGED <<objects, posting, late, activated>> /\ Active(r) /\ draftPc[r] # "wait"
      /\ draftPc[r] \in {"prepare", "discover"}
  BY DEF DraftPrepare, DraftDiscover, metaProvider, Active
<1>2. Unknown("discover") \subseteq Missing(r) /\ Unknown("campaign") \subseteq Missing(r)
      /\ Unknown("duplicates") \subseteq Missing(r) /\ Unknown("post") \subseteq Missing(r)
  BY <1>1, RequestFacts, UnknownFacts DEF IdsOf
<1>3. CASE \E answer \in {"blocked", "failed"} : DraftEnd(r, answer)
  BY <1>1, <1>3, EndStep
<1>4. CASE DraftGoto(r, "discover") /\ ids' = ids
  BY <1>1, <1>2, <1>4, QuietStep, LookedFacts
<1>5. CASE draftKind = "route" /\ DraftGoto(r, "campaign") /\ ids' = ids
  BY <1>1, <1>2, <1>5, QuietStep, LookedFacts
<1>6. CASE draftKind # "route" /\ DraftGoto(r, "duplicates") /\ ids' = ids
  <2>1. draftKind = "oneshot"
    BY <1>6, RequestFacts DEF DraftTypeOK
  <2> QED
    BY <1>1, <1>2, <1>6, <2>1, QuietStep, LookedFacts
<1>7. \/ \E answer \in {"blocked", "failed"} : DraftEnd(r, answer)
      \/ DraftGoto(r, "discover") /\ ids' = ids
      \/ draftKind = "route" /\ DraftGoto(r, "campaign") /\ ids' = ids
      \/ draftKind # "route" /\ DraftGoto(r, "duplicates") /\ ids' = ids
  BY DEF DraftPrepare, DraftDiscover, DraftBuild
<1> QED
  BY <1>3, <1>4, <1>5, <1>6, <1>7

LEMMA FailsStep ==
  ASSUME DraftIInv, NEW r \in Requests, DraftFails(r)
  PROVE  DraftIInv'
<1>1. UNCHANGED <<objects, posting, late, activated>> /\ Active(r) /\ DraftEnd(r, "failed")
  BY DEF DraftFails, metaProvider, Active, Stages
<1> QED
  BY <1>1, EndStep

LEMMA VerifyStep ==
  ASSUME DraftIInv, NEW r \in Requests, DraftVerify(r) \/ EmergencyPause(r)
  PROVE  DraftIInv'
<1>1. /\ UNCHANGED <<objects, posting, late>> /\ activated' \subseteq activated
      /\ Active(r) /\ draftPc[r] \in {"verify", "reverify"} /\ draftPc[r] # "wait"
  BY DEF DraftVerify, EmergencyPause, metaProvider, Active
<1>2. CASE DraftGoto(r, "reverify") /\ ids' = ids
  BY <1>1, <1>2, QuietStep, LookedFacts, UnknownFacts
<1>3. CASE \E answer \in {"failed", "created"} : DraftEnd(r, answer)
  BY <1>1, <1>3, EndStep
<1> QED
  BY <1>2, <1>3 DEF DraftVerify, EmergencyPause

\* An object names the parents it was posted under.
LEMMA ParentFacts ==
  ASSUME DraftIInv, NEW s \in Stages, NEW q \in Requests, <<s, q>> \in objects,
         NEW p \in Parents(s)
  PROVE  ids[q][p] # NoId /\ ids[q][p] \in Requests /\ <<p, ids[q][p]>> \in objects
<1>1. p \in Stages
  BY StageFacts
<1>2. ids[q][p] # NoId
  BY <1>1, RequestFacts DEF PostsOf
<1> QED
  BY <1>1, <1>2, RequestFacts DEF IdsOf

\* Without the parent there is nothing of the same parent.
LEMMA NoParentNothing ==
  ASSUME DraftIInv, NEW r \in Requests
  PROVE  /\ ids[r]["campaign"] = NoId => Overlooked(r, "adset") = {}
         /\ ids[r]["adset"] = NoId => Overlooked(r, "ad") = {}
<1>1. "adset" \in Stages /\ "ad" \in Stages
  BY StageFacts
<1>2. ASSUME NEW q \in Requests, <<"adset", q>> \in objects PROVE ids[q]["campaign"] # NoId
  BY <1>1, <1>2, ParentFacts, StageFacts
<1>3. ASSUME NEW q \in Requests, <<"ad", q>> \in objects PROVE ids[q]["adset"] # NoId
  BY <1>1, <1>3, ParentFacts, StageFacts
<1> QED
  BY <1>2, <1>3 DEF Overlooked, SameParent

LEMMA FoundFacts ==
  ASSUME NEW r \in Requests, NEW s \in Stages
  PROVE  Overlooked(r, s) \subseteq InCollection(r, s)
BY DEF Overlooked, InCollection, SameParent

\* A request of the route that finds nothing under a name.
LEMMA FindNothingStep ==
  ASSUME DraftIInv, NEW r \in Requests, draftPc[r] \in Stages,
         InCollection(r, draftPc[r]) = {},
         DraftGoto(r, AfterFind(draftPc[r], NoId, ids[r]["campaign"])), ids' = ids,
         UNCHANGED metaProvider
  PROVE  DraftIInv'
<1> DEFINE stage == draftPc[r]
           to == AfterFind(stage, NoId, ids[r]["campaign"])
<1>1. /\ UNCHANGED <<objects, posting, late, activated>> /\ Active(r) /\ stage # "wait"
      /\ stage \notin {"post", "verify", "reverify"} /\ draftKind = "route"
  BY RequestFacts DEF metaProvider, Active, Stages, KindOf
<1>2. stage \in {"campaign", "creative", "adset", "ad"}
  BY DEF Stages
<1>3. /\ stage = "campaign" => to = "creative"
      /\ stage = "creative" => to = IF ids[r]["campaign"] = NoId THEN "post" ELSE "adset"
      /\ stage \in {"adset", "ad"} => to = "post"
  BY DEF AfterFind
<1>4. Overlooked(r, stage) = {}
  BY FoundFacts
<1>5. /\ LookedOf(r) /\ IdsOf(r) /\ \A s \in Stages : s \in Missing(r) <=> ids[r][s] = NoId
      /\ "campaign" \in Stages /\ "creative" \in Stages /\ "adset" \in Stages /\ "ad" \in Stages
  BY RequestFacts DEF Stages
<1> HIDE DEF to
<1>6. Unknown(to) \subseteq Missing(r)
  <2>1. CASE stage = "campaign"
    BY <1>3, <1>5, <2>1, UnknownFacts, StageFacts DEF IdsOf
  <2>2. CASE stage = "creative"
    BY <1>3, <1>5, <2>2, UnknownFacts DEF IdsOf
  <2>3. CASE stage \in {"adset", "ad"}
    BY <1>3, <2>3, UnknownFacts
  <2> QED
    BY <1>2, <2>1, <2>2, <2>3
<1>7. \A s \in Looked(to) \cap Missing(r) : Overlooked(r, s) = {}
  <2>1. CASE stage = "campaign"
    BY <1>3, <1>4, <2>1, LookedFacts
  <2>2. CASE stage = "creative"
    <3>1. \A s \in {"campaign", "creative"} \cap Missing(r) : Overlooked(r, s) = {}
      BY <1>4, <1>5, <2>2, LookedFacts DEF LookedOf
    <3>2. ids[r]["campaign"] # NoId => to = "adset"
      BY <1>3, <2>2
    <3>3. CASE ids[r]["campaign"] = NoId
      <4>1. ids[r]["adset"] = NoId
        BY <1>5, <2>2, UnknownFacts DEF IdsOf
      <4> QED
        BY <3>1, <3>3, <4>1, NoParentNothing, StageFacts, RequestFacts
    <3> QED
      BY <3>1, <3>2, <3>3, LookedFacts
  <2>3. CASE stage = "adset"
    <3>1. \A s \in {"campaign", "creative", "adset"} \cap Missing(r) : Overlooked(r, s) = {}
      BY <1>4, <1>5, <2>3, LookedFacts DEF LookedOf
    <3>2. ids[r]["adset"] = NoId
      BY <1>5, <2>3, UnknownFacts DEF IdsOf
    <3> QED
      BY <3>1, <3>2, NoParentNothing, StageFacts, RequestFacts
  <2>4. CASE stage = "ad"
    <3>1. \A s \in {"campaign", "creative", "adset", "ad"} \cap Missing(r) : Overlooked(r, s) = {}
      BY <1>4, <1>5, <2>4, LookedFacts DEF LookedOf
    <3> QED
      BY <3>1, StageFacts, RequestFacts
  <2> QED
    BY <1>2, <2>1, <2>2, <2>3, <2>4
<1>8. to \in {"creative", "adset", "post"}
  BY <1>2, <1>3
<1>9. DraftGoto(r, to)
  BY DEF to
<1> QED
  BY <1>1, <1>6, <1>7, <1>8, <1>9, QuietStep

-----------------------------------------------------------------------------
\* Steps that change what a request knows.

LEMMA OwnOverlooked ==
  ASSUME NEW r \in Requests, NEW s \in Stages, RequestMove(r),
         s = "adset" => ids'[r]["campaign"] = ids[r]["campaign"],
         s = "ad" => ids'[r]["adset"] = ids[r]["adset"]
  PROVE  Overlooked(r, s)' = Overlooked(r, s)
BY DEF Overlooked, SameParent, RequestMove

\* Whom a request may take something over from: one that has ended.
LEMMA AdoptsEnded ==
  ASSUME DraftIInv, NEW r \in Requests, Active(r), NEW s \in Stages, NEW m \in Requests,
         <<s, m>> \in objects
  PROVE  \A q \in Requests : q # r /\ startOf[r] = startOf[q] /\ draftPc[q] # "ended" => m # q
BY NotFresh, RequestFacts

\* The one object of a name is taken over.
LEMMA AdoptStep ==
  ASSUME DraftIInv, NEW r \in Requests, NEW m \in Requests, draftPc[r] \in Stages,
         <<draftPc[r], m>> \in objects,
         ids' = [ids EXCEPT ![r][draftPc[r]] = m,
                            ![r]["creative"] = IF draftPc[r] = "creative" THEN m
                                               ELSE IF draftPc[r] = "ad" THEN ids[m]["creative"]
                                               ELSE @],
         DraftGoto(r, AfterFind(draftPc[r], m, ids[r]["campaign"])), UNCHANGED metaProvider
  PROVE  DraftIInv'
<1> DEFINE stage == draftPc[r]
           to == AfterFind(stage, m, ids[r]["campaign"])
<1>1. /\ DraftTypeOK /\ DraftParts /\ PostsOf(r) /\ IdsOf(r) /\ LookedOf(r)
      /\ draftKind = "route" /\ Missing(r) \subseteq Stages
      /\ \A s \in Stages : s \in Missing(r) <=> ids[r][s] = NoId
  BY RequestFacts DEF KindOf
<1>2. /\ objects' = objects /\ posting' = posting /\ late' = late /\ activated' = activated
      /\ startOf' = startOf /\ draftKind' = draftKind /\ oneShotStarted' = oneShotStarted
      /\ draftAnswer' = draftAnswer /\ held' = held
      /\ draftPc' = [draftPc EXCEPT ![r] = to]
  BY DEF metaProvider, DraftGoto, draftServer
<1>3. stage \in {"campaign", "creative", "adset", "ad"} /\ Active(r) /\ m # NoId
      /\ stage \notin {"post", "wait", "verify", "reverify", "ended", "new"}
  BY StageFacts DEF Stages, Active
<1>4. /\ stage = "campaign" => to = "creative"
      /\ stage = "creative" => to = IF ids[r]["campaign"] = NoId THEN "post" ELSE "adset"
      /\ stage = "adset" => to = "ad"
      /\ stage = "ad" => to = "post"
  BY <1>3 DEF AfterFind
<1>5. to \in {"creative", "adset", "ad", "post"} /\ draftPc'[r] = to
  BY <1>1, <1>2, <1>3, <1>4 DEF DraftTypeOK
<1> HIDE DEF to
<1>6. stage = "ad" =>
         /\ ids[m]["creative"] # NoId /\ ids[m]["creative"] \in Requests
         /\ <<"creative", ids[m]["creative"]>> \in objects
  BY ParentFacts, StageFacts
<1>7. /\ \A q \in Requests \ {r} : ids'[q] = ids[q]
      /\ ids'[r][stage] = m
      /\ stage = "ad" => ids'[r]["creative"] = ids[m]["creative"]
      /\ \A s \in Stages : s # stage /\ ~(stage = "ad" /\ s = "creative") => ids'[r][s] = ids[r][s]
  BY <1>1, <1>3 DEF DraftTypeOK, Stages
<1>8. ids' \in [Requests -> [Stages -> Requests \cup {NoId}]]
  <2> DEFINE last == IF stage = "creative" THEN m
                      ELSE IF stage = "ad" THEN ids[m]["creative"] ELSE ids[r]["creative"]
             known == [ids[r] EXCEPT ![stage] = m,
                                     !["creative"] = IF stage = "creative" THEN m
                                                     ELSE IF stage = "ad" THEN ids[m]["creative"]
                                                     ELSE @]
  <2>1. ids[r] \in [Stages -> Requests \cup {NoId}]
    BY <1>1 DEF DraftTypeOK
  <2>2. known = [[ids[r] EXCEPT ![stage] = m] EXCEPT !["creative"] = last]
    BY <2>1, <1>3, StageFacts
  <2>3. last \in Requests \cup {NoId}
    BY <1>6, <2>1, StageFacts
  <2>4. known \in [Stages -> Requests \cup {NoId}]
    <3> HIDE DEF last, known
    <3> QED
      BY <2>1, <2>2, <2>3
  <2>5. ids' = [ids EXCEPT ![r] = known]
    BY <1>1 DEF DraftTypeOK
  <2> QED
    BY <1>1, <2>4, <2>5 DEF DraftTypeOK
<1>9. DraftTypeOK'
  BY <1>1, <1>2, <1>5, <1>8 DEF DraftTypeOK, Stages
<1>10. \A s \in Stages : <<s, r>> \notin posting \cup objects
  BY <1>1, <1>3 DEF PostsOf
<1>11. RequestMove(r)
  <2>1. draftPc'[r] # "new" /\ \A q \in Requests \ {r} : draftPc'[q] = draftPc[q]
    BY <1>1, <1>2, <1>5 DEF DraftTypeOK
  <2> QED
    BY <1>2, <1>3, <1>7, <1>10, <2>1 DEF RequestMove
<1>12. KindOf(r)'
  BY <1>1, <1>2, <1>5 DEF KindOf
<1>13. PostsOf(r)'
  BY <1>2, <1>10 DEF PostsOf
<1>14. \A s \in Stages : s \in Missing(r)' <=> ids'[r][s] = NoId
  BY DEF Missing
<1>15. IdsOf(r)'
  <2> DEFINE Fresh(q) == q # r /\ startOf[r] = startOf[q] /\ draftPc[q] # "ended"
             x == ids[m]["creative"]
  <2>1. \A q \in Requests : Fresh(q) => m # q
    BY <1>3, AdoptsEnded
  <2>2. stage = "ad" => \A q \in Requests : Fresh(q) => x # q
    BY <1>3, <1>6, AdoptsEnded, StageFacts
  <2>3. ASSUME NEW s \in Stages, ids'[r][s] # NoId
        PROVE  <<s, ids'[r][s]>> \in objects /\ \A q \in Requests : Fresh(q) => ids'[r][s] # q
    <3>1. CASE s = stage
      BY <1>7, <3>1, <2>1
    <3>2. CASE s # stage /\ stage = "ad" /\ s = "creative"
      BY <1>6, <1>7, <3>2, <2>2
    <3>3. CASE s # stage /\ ~(stage = "ad" /\ s = "creative")
      <4>1. ids'[r][s] = ids[r][s]
        BY <1>7, <3>3
      <4> QED
        BY <1>1, <2>3, <4>1 DEF IdsOf
    <3> QED
      BY <3>1, <3>2, <3>3
  <2>4. NoId \notin Requests
    BY StageFacts
  <2>5. \A q \in Requests : draftPc'[q] # "ended" => draftPc[q] # "ended"
    BY <1>3, <1>11 DEF RequestMove
  <2>6. Unknown(to) \subseteq Missing(r)'
    <3>1. Unknown(stage) \subseteq Missing(r)
      BY <1>1 DEF IdsOf
    <3>2. CASE stage = "campaign"
      BY <1>1, <1>4, <1>7, <1>14, <3>1, <3>2, UnknownFacts, StageFacts
    <3>3. CASE stage = "creative"
      BY <1>1, <1>4, <1>7, <1>14, <3>1, <3>3, UnknownFacts, StageFacts
    <3>4. CASE stage = "adset"
      BY <1>1, <1>4, <1>7, <1>14, <3>1, <3>4, UnknownFacts, StageFacts
    <3>5. CASE stage = "ad"
      BY <1>4, <3>5, UnknownFacts
    <3> QED
      BY <1>3, <3>2, <3>3, <3>4, <3>5
  <2> QED
    BY <1>1, <1>2, <1>5, <2>3, <2>4, <2>5, <2>6 DEF IdsOf
<1>16. LookedOf(r)'
  <2>1. ASSUME NEW s \in Looked(to), s \in Missing(r)'
        PROVE  Overlooked(r, s)' = {}
    <3>1. ids'[r][s] = NoId /\ s \in Stages
      BY <2>1 DEF Missing
    <3>2. s # stage /\ ~(stage = "ad" /\ s = "creative") /\ s \in Missing(r)
      BY <1>1, <1>3, <1>6, <1>7, <3>1, StageFacts
    <3>3. CASE s \in Looked(stage)
      <4>1. Overlooked(r, s) = {}
        BY <1>1, <3>2, <3>3 DEF LookedOf
      <4>2. s = "adset" => ids'[r]["campaign"] = ids[r]["campaign"]
        BY <1>3, <1>7, <3>3, LookedFacts, StageFacts
      <4>3. s # "ad"
        BY <1>3, <3>3, LookedFacts
      <4> QED
        BY <1>11, <3>1, <4>1, <4>2, <4>3, OwnOverlooked
    <3>4. CASE s \notin Looked(stage)
      <4>1. stage = "creative" /\ to = "post" /\ ids[r]["campaign"] = NoId /\ s \in {"adset", "ad"}
        BY <1>3, <1>4, <2>1, <3>1, <3>2, <3>4, LookedFacts, StageFacts
      <4>2. ids[r]["adset"] = NoId
        BY <1>1, <4>1, UnknownFacts, StageFacts DEF IdsOf
      <4>3. Overlooked(r, s) = {}
        BY <4>1, <4>2, NoParentNothing
      <4>4. ids'[r]["campaign"] = ids[r]["campaign"] /\ ids'[r]["adset"] = ids[r]["adset"]
        BY <1>7, <4>1, StageFacts
      <4> QED
        BY <1>11, <3>1, <4>3, <4>4, OwnOverlooked
    <3> QED
      BY <3>3, <3>4
  <2> QED
    BY <1>5, <2>1 DEF LookedOf
<1> QED
  BY <1>9, <1>11, <1>12, <1>13, <1>15, <1>16, RequestStep

LEMMA FindStep ==
  ASSUME DraftIInv, NEW r \in Requests, DraftFind(r)
  PROVE  DraftIInv'
<1>1. draftPc[r] \in Stages /\ Active(r)
  BY DEF DraftFind, Stages, Active
<1>2. CASE DraftEnd(r, "blocked")
  BY <1>1, <1>2, EndStep DEF DraftFind, metaProvider
<1>3. CASE /\ InCollection(r, draftPc[r]) = {}
           /\ DraftGoto(r, AfterFind(draftPc[r], NoId, ids[r]["campaign"])) /\ ids' = ids
  BY <1>1, <1>3, FindNothingStep DEF DraftFind
<1>4. ASSUME NEW m \in InCollection(r, draftPc[r]),
             ids' = [ids EXCEPT ![r][draftPc[r]] = m,
                            ![r]["creative"] = IF draftPc[r] = "creative" THEN m
                                               ELSE IF draftPc[r] = "ad" THEN ids[m]["creative"]
                                               ELSE @],
             DraftGoto(r, AfterFind(draftPc[r], m, ids[r]["campaign"]))
      PROVE  DraftIInv'
  <2>1. m \in Requests /\ <<draftPc[r], m>> \in objects
    BY DEF InCollection
  <2> QED
    BY <1>1, <1>4, <2>1, AdoptStep DEF DraftFind
<1> QED
  BY <1>2, <1>3, <1>4 DEF DraftFind

-----------------------------------------------------------------------------
\* The one-shot, which looks for the campaign and for its ad sets.

\* What was made of a request's start time had a campaign.
LEMMA NoCampaignNothing ==
  ASSUME DraftIInv, \A m \in Requests : <<"campaign", m>> \notin objects
  PROVE  objects = {}
<1> SUFFICES ASSUME NEW o \in objects PROVE FALSE
  OBVIOUS
<1>1. o[1] \in Stages /\ o[2] \in Requests /\ o = <<o[1], o[2]>>
  BY ObjectFacts, RequestFacts DEF DraftIInv, DraftTypeOK
<1>2. CASE o[1] = "campaign"
  BY <1>1, <1>2
<1>3. CASE o[1] # "campaign"
  <2>1. "campaign" \in Parents(o[1])
    BY <1>1, <1>3 DEF Parents
  <2>2. <<o[1], o[2]>> \in objects
    BY <1>1
  <2> QED
    BY <1>1, <2>1, <2>2, ParentFacts
<1> QED
  BY <1>2, <1>3

LEMMA OneShotFindStep ==
  ASSUME DraftIInv, NEW r \in Requests, OneShotFind(r)
  PROVE  DraftIInv'
<1> DEFINE found == {m \in Requests : <<"campaign", m>> \in objects}
<1>1. /\ DraftTypeOK /\ DraftParts /\ PostsOf(r) /\ IdsOf(r) /\ Missing(r) \subseteq Stages
      /\ draftPc[r] = "duplicates" /\ Active(r) /\ draftKind = "oneshot"
      /\ objects' = objects /\ posting' = posting /\ late' = late /\ activated' = activated
      /\ \A s \in Stages : s \in Missing(r) <=> ids[r][s] = NoId
  BY RequestFacts DEF OneShotFind, Active, KindOf, metaProvider
<1>2. CASE DraftEnd(r, "blocked")
  BY <1>1, <1>2, EndStep
<1>3. CASE found = {} /\ DraftGoto(r, "post") /\ ids' = ids
  <2>1. objects = {}
    BY <1>3, NoCampaignNothing
  <2>2. \A s \in Looked("post") \cap Missing(r) : Overlooked(r, s) = {}
    BY <2>1 DEF Overlooked
  <2> QED
    BY <1>1, <1>3, <2>2, QuietStep, UnknownFacts
<1>4. ASSUME NEW m \in Requests, found = {m},
             ids' = [ids EXCEPT ![r]["campaign"] = m], DraftGoto(r, "adsets")
      PROVE  DraftIInv'
  <2>1. /\ startOf' = startOf /\ draftKind' = draftKind /\ oneShotStarted' = oneShotStarted
        /\ draftAnswer' = draftAnswer /\ held' = held
        /\ draftPc' = [draftPc EXCEPT ![r] = "adsets"]
    BY <1>4 DEF DraftGoto, draftServer
  <2>2. m # NoId /\ <<"campaign", m>> \in objects /\ m \in found
    BY <1>4, StageFacts
  <2>3. /\ \A q \in Requests \ {r} : ids'[q] = ids[q]
        /\ ids'[r]["campaign"] = m
        /\ \A s \in Stages \ {"campaign"} : ids'[r][s] = ids[r][s]
        /\ draftPc'[r] = "adsets" /\ \A q \in Requests \ {r} : draftPc'[q] = draftPc[q]
    BY <1>1, <1>4, <2>1, StageFacts DEF DraftTypeOK
  <2>4. DraftTypeOK'
    <3>1. ids' \in [Requests -> [Stages -> Requests \cup {NoId}]]
      BY <1>1, <1>4 DEF DraftTypeOK
    <3> QED
      BY <1>1, <2>1, <3>1 DEF DraftTypeOK, Stages
  <2>5. \A s \in Stages : <<s, r>> \notin posting \cup objects
    BY <1>1 DEF PostsOf
  <2>6. RequestMove(r)
    BY <1>1, <2>1, <2>3, <2>5 DEF RequestMove
  <2>7. KindOf(r)'
    BY <1>1, <2>1, <2>3 DEF KindOf, Stages
  <2>8. PostsOf(r)'
    BY <1>1, <2>5 DEF PostsOf
  <2>9. \A s \in Stages : s \in Missing(r)' <=> ids'[r][s] = NoId
    BY DEF Missing
  <2>10. IdsOf(r)'
    <3>1. \A q \in Requests : q # r /\ startOf[r] = startOf[q] /\ draftPc[q] # "ended" => m # q
      BY <1>1, <2>2, AdoptsEnded, StageFacts
    <3>2. \A q \in Requests : draftPc'[q] # "ended" => draftPc[q] # "ended"
      BY <1>1, <2>3
    <3>3. Unknown("adsets") \subseteq Missing(r)' /\ "campaign" \notin Missing(r)'
      BY <1>1, <2>2, <2>3, <2>9, UnknownFacts, StageFacts DEF IdsOf
    <3>4. \A s \in Stages : ids'[r][s] # NoId => <<s, ids'[r][s]>> \in objects
      BY <1>1, <2>2, <2>3 DEF IdsOf
    <3>5. \A q \in Requests, s \in Stages :
             q # r /\ startOf[r] = startOf[q] /\ draftPc[q] # "ended" => ids'[r][s] # q
      BY <1>1, <2>3, <3>1 DEF IdsOf
    <3>6. ids'[r]["adset"] \in {NoId, r}
      BY <1>1, <2>3, StageFacts DEF IdsOf
    <3> QED
      BY <1>1, <2>1, <2>3, <3>2, <3>3, <3>4, <3>5, <3>6 DEF IdsOf
  <2>11. LookedOf(r)'
    <3>1. ASSUME NEW q \in Overlooked(r, "creative") PROVE ids[q]["campaign"] = m
      <4>1. q \in Requests /\ <<"creative", q>> \in objects
        BY DEF Overlooked
      <4>2. ids[q]["campaign"] \in Requests /\ <<"campaign", ids[q]["campaign"]>> \in objects
        BY <4>1, ParentFacts, StageFacts
      <4> QED
        BY <1>4, <4>2
    <3>2. Overlooked(r, "creative")' = Overlooked(r, "creative")
      BY <2>6, OwnOverlooked, StageFacts
    <3>3. \A q \in Overlooked(r, "creative") : q \in Requests \ {r}
      BY DEF Overlooked
    <3> QED
      BY <2>3, <3>1, <3>2, <3>3, LookedFacts DEF LookedOf
  <2> QED
    BY <2>4, <2>6, <2>7, <2>8, <2>10, <2>11, RequestStep
<1> QED
  BY <1>2, <1>3, <1>4 DEF OneShotFind

\* No ad set of the campaign, so nothing that is posted after one.
LEMMA OneShotAdSetsStep ==
  ASSUME DraftIInv, NEW r \in Requests, OneShotAdSets(r)
  PROVE  DraftIInv'
<1>1. /\ PostsOf(r) /\ IdsOf(r) /\ LookedOf(r) /\ Missing(r) \subseteq Stages
      /\ draftPc[r] = "adsets" /\ Active(r) /\ draftKind = "oneshot"
      /\ objects' = objects /\ posting' = posting /\ late' = late /\ activated' = activated
      /\ \A s \in Stages : s \in Missing(r) <=> ids[r][s] = NoId
  BY RequestFacts DEF OneShotAdSets, Active, KindOf, metaProvider
<1>2. CASE DraftEnd(r, "blocked")
  BY <1>1, <1>2, EndStep
<1>3. CASE /\ \A m \in Requests : ~(/\ <<"adset", m>> \in objects
                                   /\ ids[m]["campaign"] = ids[r]["campaign"])
           /\ DraftGoto(r, "post") /\ ids' = ids
  <2>1. Overlooked(r, "adset") = {}
    BY <1>3 DEF Overlooked, SameParent
  <2>2. Overlooked(r, "creative") = {}
    <3> SUFFICES ASSUME NEW q \in Overlooked(r, "creative") PROVE FALSE
      OBVIOUS
    <3>1. q \in Requests /\ <<"creative", q>> \in objects
      BY DEF Overlooked
    <3>2. ids[q]["campaign"] = ids[r]["campaign"]
      BY <1>1 DEF LookedOf
    <3>3. ids[q]["adset"] # NoId /\ <<"adset", ids[q]["adset"]>> \in objects
      BY <3>1, ParentFacts, StageFacts
    <3>4. ids[q]["adset"] = q
      BY <1>1, <3>1, <3>3, RequestFacts DEF IdsOf
    <3> QED
      BY <1>3, <3>1, <3>2, <3>3, <3>4
  <2>3. Overlooked(r, "ad") = {}
    BY <1>1, NoParentNothing, UnknownFacts, StageFacts DEF IdsOf
  <2>4. \A s \in Looked("post") \cap Missing(r) : Overlooked(r, s) = {}
    BY <1>1, <2>1, <2>2, <2>3, StageFacts DEF IdsOf
  <2> QED
    BY <1>1, <1>3, <2>4, QuietStep, UnknownFacts
<1> QED
  BY <1>2, <1>3 DEF OneShotAdSets

-----------------------------------------------------------------------------
\* Posting.

LEMMA PostStep ==
  ASSUME DraftIInv, NEW r \in Requests, DraftPost(r)
  PROVE  DraftIInv'
<1>1. /\ DraftTypeOK /\ DraftParts /\ PostsOf(r) /\ IdsOf(r) /\ LookedOf(r) /\ KindOf(r)
      /\ draftPc[r] = "post" /\ Active(r) /\ draftPc[r] # "wait" /\ ids' = ids
      /\ objects' = objects /\ late' = late /\ activated' = activated
  BY RequestFacts DEF DraftPost, Active
<1>2. CASE Missing(r) = {} /\ DraftGoto(r, "verify") /\ posting' = posting
  BY <1>1, <1>2, QuietStep, UnknownFacts, LookedFacts
<1>3. CASE /\ Missing(r) # {} /\ DraftGoto(r, "wait")
           /\ posting' = posting \cup {<<FirstMissing(r), r>>}
  <2>1. /\ startOf' = startOf /\ draftKind' = draftKind /\ oneShotStarted' = oneShotStarted
        /\ draftAnswer' = draftAnswer /\ held' = held
        /\ draftPc' = [draftPc EXCEPT ![r] = "wait"]
    BY <1>3 DEF DraftGoto, draftServer
  <2>2. draftPc'[r] = "wait" /\ \A q \in Requests \ {r} : draftPc'[q] = draftPc[q]
    BY <1>1, <2>1 DEF DraftTypeOK
  <2>3. /\ FirstMissing(r) \in Stages /\ FirstMissing(r) \in Missing(r)
        /\ Parents(FirstMissing(r)) \cap Missing(r) = {}
    BY <1>3, FirstMissingFacts
  <2>4. DraftTypeOK'
    BY <1>1, <1>3, <2>1, <2>3, ObjectFacts DEF DraftTypeOK
  <2>5. RequestMove(r)
    BY <1>1, <1>3, <2>1, <2>2 DEF RequestMove
  <2>6. Missing(r)' = Missing(r) /\ FirstMissing(r)' = FirstMissing(r)
    BY <1>1 DEF Missing, FirstMissing
  <2>7. KindOf(r)'
    BY <2>2 DEF KindOf, Stages
  <2>8. PostsOf(r)'
    <3>1. \A s \in Stages : <<s, r>> \notin posting
      BY <1>1 DEF PostsOf
    <3>2. \A s \in Stages : <<s, r>> \in objects =>
             s \notin Missing(r) /\ Parents(s) \cap Missing(r) = {}
      BY <1>1 DEF PostsOf
    <3>3. \A s \in Stages : <<s, r>> \in posting' <=> s = FirstMissing(r)
      BY <1>3, <3>1
    <3> QED
      BY <1>1, <2>2, <2>3, <2>6, <3>2, <3>3 DEF PostsOf
  <2>9. IdsOf(r)'
    <3>1. \A q \in Requests : draftPc'[q] # "ended" => draftPc[q] # "ended"
      BY <1>1, <2>2
    <3> QED
      BY <1>1, <2>1, <2>2, <2>6, <3>1, UnknownFacts DEF IdsOf
  <2>10. LookedOf(r)'
    <3>1. \A s \in Stages : Overlooked(r, s)' = Overlooked(r, s)
      BY <1>1, <2>5, OwnOverlooked
    <3> QED
      BY <1>1, <2>2, <2>6, <3>1, LookedFacts DEF LookedOf, Missing
  <2> QED
    BY <2>4, <2>5, <2>7, <2>8, <2>9, <2>10, RequestStep
<1> QED
  BY <1>2, <1>3 DEF DraftPost

\* What a request made itself is under no other's parents.
LEMMA PostedStep ==
  ASSUME DraftIInv, NEW r \in Requests, DraftPosted(r)
  PROVE  DraftIInv'
<1> DEFINE f == FirstMissing(r)
<1>1. /\ DraftTypeOK /\ DraftParts /\ PostsOf(r) /\ IdsOf(r) /\ LookedOf(r) /\ KindOf(r)
      /\ draftPc[r] = "wait" /\ Active(r) /\ Missing(r) \subseteq Stages
      /\ objects' = objects /\ posting' = posting /\ late' = late /\ activated' = activated
      /\ <<f, r>> \in objects /\ f \in Stages
      /\ ids' = [ids EXCEPT ![r][f] = r]
      /\ \A s \in Stages : s \in Missing(r) <=> ids[r][s] = NoId
  BY RequestFacts, FirstMissingFacts DEF DraftPosted, Active, metaProvider
<1>2. /\ startOf' = startOf /\ draftKind' = draftKind /\ oneShotStarted' = oneShotStarted
      /\ draftAnswer' = draftAnswer /\ held' = held
      /\ draftPc' = [draftPc EXCEPT ![r] = "post"]
  BY DEF DraftPosted, DraftGoto, draftServer
<1>3. Missing(r) # {} => f \in Missing(r) /\ Parents(f) \cap Missing(r) = {}
  BY FirstMissingFacts
<1> HIDE DEF f
<1>4. /\ \A q \in Requests \ {r} : ids'[q] = ids[q]
      /\ ids'[r][f] = r /\ r # NoId
      /\ \A s \in Stages \ {f} : ids'[r][s] = ids[r][s]
      /\ draftPc'[r] = "post" /\ \A q \in Requests \ {r} : draftPc'[q] = draftPc[q]
  BY <1>1, <1>2, StageFacts DEF DraftTypeOK
<1>5. DraftTypeOK'
  <2>1. ids' \in [Requests -> [Stages -> Requests \cup {NoId}]]
    BY <1>1 DEF DraftTypeOK
  <2> QED
    BY <1>1, <1>2, <2>1 DEF DraftTypeOK
<1>6. \A s \in Stages : s \in Missing(r)' <=> s \in Missing(r) /\ s # f
  BY <1>1, <1>4 DEF Missing
<1>7. \A s \in Stages : <<s, r>> \in objects /\ s \in Missing(r) => s = f
  BY <1>1 DEF PostsOf, f
<1>8. \A s \in Stages : <<s, r>> \notin posting
  BY <1>1 DEF PostsOf, f
<1>9. \A s \in Stages : <<s, r>> \in objects => Parents(s) \cap Missing(r) = {}
  BY <1>1 DEF PostsOf
<1>10. \A s \in Stages : <<s, r>> \in objects => f \notin Parents(s)
  <2>1. CASE Missing(r) = {}
    <3>1. f = "ad"
      BY <2>1 DEF f, FirstMissing
    <3> QED
      BY <3>1 DEF Parents
  <2>2. CASE Missing(r) # {}
    BY <1>3, <1>9, <2>2
  <2> QED
    BY <2>1, <2>2
<1>11. RequestMove(r)
  <2>1. \A s \in Stages : <<s, r>> \in objects => \A p \in Parents(s) : ids'[r][p] = ids[r][p]
    BY <1>4, <1>10, StageFacts
  <2> QED
    BY <1>1, <1>2, <1>4, <2>1 DEF RequestMove
<1>12. KindOf(r)'
  BY <1>4 DEF KindOf, Stages
<1>13. PostsOf(r)'
  <2>1. \A s \in Stages : <<s, r>> \in objects => s \notin Missing(r)' /\ Parents(s) \cap Missing(r)' = {}
    BY <1>6, <1>7, <1>9, StageFacts
  <2> QED
    BY <1>1, <1>4, <1>8, <2>1 DEF PostsOf
<1>14. IdsOf(r)'
  <2>1. \A q \in Requests : draftPc'[q] # "ended" => draftPc[q] # "ended"
    BY <1>1, <1>4
  <2>2. \A s \in Stages : ids'[r][s] # NoId => <<s, ids'[r][s]>> \in objects
    BY <1>1, <1>4 DEF IdsOf
  <2>3. \A q \in Requests, s \in Stages :
           q # r /\ startOf[r] = startOf[q] /\ draftPc[q] # "ended" => ids'[r][s] # q
    BY <1>1, <1>4 DEF IdsOf
  <2>4. draftKind = "oneshot" => ids'[r]["adset"] \in {NoId, r}
    BY <1>1, <1>4, StageFacts DEF IdsOf
  <2> QED
    BY <1>1, <1>2, <1>4, <2>1, <2>2, <2>3, <2>4, UnknownFacts DEF IdsOf
<1>15. LookedOf(r)'
  <2>1. ASSUME NEW s \in Stages, s \in Missing(r)' PROVE Overlooked(r, s)' = {}
    <3>1. s \in Missing(r) /\ s # f
      BY <1>6, <2>1
    <3>2. Overlooked(r, s) = {}
      BY <1>1, <3>1, LookedFacts DEF LookedOf
    <3>3. CASE ~(s = "adset" /\ f = "campaign") /\ ~(s = "ad" /\ f = "adset")
      BY <1>4, <1>11, <3>2, <3>3, OwnOverlooked, StageFacts
    <3>4. ASSUME NEW q \in Overlooked(r, s)' PROVE ids[q][f] # r /\ ids'[q] = ids[q] /\ ids'[r][f] = r
      <4>1. q \in Requests /\ q # r /\ startOf[q] = startOf[r]
        BY <1>2, <3>4 DEF Overlooked
      <4>2. IdsOf(q)
        BY <4>1, RequestFacts
      <4> QED
        BY <1>1, <1>4, <4>1, <4>2 DEF IdsOf
    <3>5. CASE s = "adset" /\ f = "campaign"
      BY <3>4, <3>5 DEF Overlooked, SameParent
    <3>6. CASE s = "ad" /\ f = "adset"
      BY <3>4, <3>6 DEF Overlooked, SameParent
    <3> QED
      BY <3>3, <3>5, <3>6
  <2>2. draftPc'[r] # "adsets" /\ \A s \in Missing(r)' : s \in Stages
    BY <1>4 DEF Missing
  <2> QED
    BY <2>1, <2>2 DEF LookedOf
<1> QED
  BY <1>5, <1>11, <1>12, <1>13, <1>14, <1>15, RequestStep

-----------------------------------------------------------------------------
\* Requests that begin, and processes that are replaced.

LEMMA DraftBeginStep ==
  ASSUME DraftIInv, NEW r \in Requests, DraftRequest(r) \/ OneShotStart(r)
  PROVE  DraftIInv'
<1>1. /\ DraftTypeOK /\ DraftParts
      /\ draftPc[r] = "new" /\ ids' = ids /\ objects' = objects /\ posting' = posting
      /\ late' = late /\ activated' = activated /\ startOf' = startOf /\ draftKind' = draftKind
  BY RequestFacts DEF DraftRequest, OneShotStart, metaProvider, draftServer
<1>2. /\ \A q \in Requests \ {r} : draftPc'[q] = draftPc[q]
      /\ draftPc'[r] \in {"prepare", "discover", "ended"}
      /\ draftPc' \in [Requests -> 
            Stages \cup {"new", "prepare", "discover", "duplicates", "adsets", "post", "wait",
                      "verify", "reverify", "ended"}]
  BY <1>1 DEF DraftRequest, OneShotStart, DraftTypeOK
<1>3. /\ held' \subseteq StartTimes /\ oneShotStarted' \in BOOLEAN
      /\ draftAnswer' \in [Requests -> {"none", "duplicate", "blocked", "failed", "created"}]
  BY <1>1 DEF DraftRequest, OneShotStart, DraftTypeOK, draftServer
<1>4. DraftTypeOK'
  BY <1>1, <1>2, <1>3 DEF DraftTypeOK
<1>5. OneActiveOnly'
  <2>1. draftKind = "route" => held \subseteq held'
    BY DEF DraftRequest, OneShotStart
  <2>2. draftKind = "route" /\ Active(r)' => startOf[r] \in held' /\ startOf[r] \notin held
    BY <1>1, <1>2 DEF DraftRequest, OneShotStart, OperationFree, Active
  <2>3. draftKind = "oneshot" => oneShotStarted' /\ ~oneShotStarted
    BY DEF DraftRequest, OneShotStart
  <2>4. \A q \in Requests \ {r} : Active(q)' <=> Active(q)
    BY <1>2 DEF Active
  <2>5. ~Active(r) /\ draftKind \in {"route", "oneshot"}
    BY <1>1 DEF Active, DraftTypeOK
  <2>6. ASSUME Active(r)', NEW q \in Requests \ {r}, Active(q) PROVE startOf[q] # startOf[r]
    BY <1>1, <2>2, <2>3, <2>5, <2>6 DEF DraftParts, OneActiveOnly
  <2>7. \A a, q \in Requests : Active(a)' /\ Active(q)' /\ startOf'[a] = startOf'[q] => a = q
    BY <1>1, <2>4, <2>6 DEF DraftParts, OneActiveOnly
  <2>8. draftKind' = "route" => \A q \in Requests : Active(q)' => startOf'[q] \in held'
    BY <1>1, <2>1, <2>2, <2>4 DEF DraftParts, OneActiveOnly
  <2>9. draftKind' = "oneshot" =>
           /\ \A a, q \in Requests : startOf'[a] = startOf'[q]
           /\ \A a \in Requests : Active(a)' => oneShotStarted'
    BY <1>1, <2>3 DEF DraftParts, OneActiveOnly
  <2> QED
    BY <2>7, <2>8, <2>9 DEF OneActiveOnly
<1>6. ASSUME NEW q \in Requests
      PROVE  KindOf(q)' /\ PostsOf(q)' /\ IdsOf(q)' /\ LookedOf(q)'
  <2>1. KindOf(q) /\ PostsOf(q) /\ IdsOf(q) /\ LookedOf(q)
    BY <1>1 DEF DraftParts
  <2>2. Missing(q)' = Missing(q) /\ FirstMissing(q)' = FirstMissing(q)
    BY <1>1 DEF Missing, FirstMissing
  <2>3. \A s \in Stages : Overlooked(q, s)' = Overlooked(q, s)
    BY <1>1, SameOverlooked
  <2>4. \A p \in Requests : draftPc'[p] # "ended" => draftPc[p] # "ended"
    BY <1>1, <1>2
  <2>5. CASE q = r
    <3>1. KindOf(q)'
      BY <1>2, <2>5 DEF KindOf, Stages
    <3>2. PostsOf(q)'
      BY <1>1, <2>1, <2>5 DEF PostsOf
    <3>3. IdsOf(q)'
      <4>1. Unknown(draftPc'[q]) \subseteq Unknown("new") /\ draftPc'[q] # "adsets"
        BY <1>2, <2>5, UnknownFacts
      <4> QED
        BY <1>1, <2>1, <2>2, <2>4, <2>5, <4>1 DEF IdsOf
    <3>4. LookedOf(q)'
      BY <1>2, <2>5, LookedFacts DEF LookedOf
    <3> QED
      BY <3>1, <3>2, <3>3, <3>4
  <2>6. CASE q # r
    <3>1. draftPc'[q] = draftPc[q]
      BY <1>2, <2>6
    <3>2. KindOf(q)' /\ PostsOf(q)'
      BY <1>1, <2>1, <2>2, <3>1 DEF KindOf, PostsOf
    <3>3. IdsOf(q)'
      BY <1>1, <2>1, <2>2, <2>4, <3>1 DEF IdsOf
    <3>4. LookedOf(q)'
      BY <1>1, <2>1, <2>2, <2>3, <3>1, StageFacts DEF LookedOf, Missing
    <3> QED
      BY <3>2, <3>3, <3>4
  <2> QED
    BY <2>5, <2>6
<1>7. DraftKept'
  BY <1>4, <1>5, <1>6, PartsPrimed DEF DraftParts
<1>8. StageMadeOnce'
  BY <1>1 DEF DraftIInv, StageMadeOnce, SameParent
<1> QED
  BY <1>4, <1>7, <1>8 DEF DraftIInv

LEMMA RestartStep == ASSUME DraftIInv, DraftRestart PROVE DraftIInv'
<1>1. /\ DraftTypeOK /\ DraftParts
      /\ ids' = ids /\ objects' = objects /\ posting' = posting /\ draftAnswer' = draftAnswer
      /\ late' = late /\ activated' = activated /\ startOf' = startOf /\ draftKind' = draftKind
      /\ held' = {} /\ oneShotStarted' = FALSE
      /\ \A q \in Requests : draftPc'[q] = IF draftPc[q] = "new" THEN "new" ELSE "ended"
      /\ draftPc' \in [Requests -> {"new", "ended"}]
  BY Parts DEF DraftIInv, DraftRestart, metaProvider
<1>2. DraftTypeOK'
  BY <1>1 DEF DraftTypeOK
<1>3. OneActiveOnly'
  BY <1>1 DEF OneActiveOnly, Active, DraftParts
<1>4. ASSUME NEW q \in Requests
      PROVE  KindOf(q)' /\ PostsOf(q)' /\ IdsOf(q)' /\ LookedOf(q)'
  <2>1. PostsOf(q) /\ IdsOf(q)
    BY <1>1 DEF DraftParts
  <2>2. Missing(q)' = Missing(q)
    BY <1>1 DEF Missing
  <2>3. draftPc'[q] = IF draftPc[q] = "new" THEN "new" ELSE "ended"
    BY <1>1
  <2>4. KindOf(q)'
    BY <2>3 DEF KindOf, Stages
  <2>5. PostsOf(q)'
    BY <1>1, <2>1, <2>2, <2>3 DEF PostsOf
  <2>6. IdsOf(q)'
    <3>1. \A p \in Requests : draftPc'[p] # "ended" => draftPc[p] # "ended"
      BY <1>1
    <3> QED
      BY <1>1, <2>1, <2>2, <2>3, <3>1, UnknownFacts DEF IdsOf
  <2>7. LookedOf(q)'
    BY <2>3, LookedFacts DEF LookedOf
  <2> QED
    BY <2>4, <2>5, <2>6, <2>7
<1>5. DraftKept'
  BY <1>2, <1>3, <1>4, PartsPrimed DEF DraftParts
<1>6. StageMadeOnce'
  BY <1>1 DEF DraftIInv, StageMadeOnce, SameParent
<1> QED
  BY <1>2, <1>5, <1>6 DEF DraftIInv

-----------------------------------------------------------------------------
\* At Meta.

\* What neither makes an object nor changes what a request knows.
LEMMA StillStep ==
  ASSUME DraftIInv, UNCHANGED <<objects, late, draftPc, startOf, draftKind, oneShotStarted, ids,
                                held>>,
         posting' \subseteq posting, DraftTypeOK'
  PROVE  DraftIInv'
<1>1. DraftTypeOK /\ DraftParts
  BY Parts DEF DraftIInv
<1>2. OneActiveOnly'
  BY <1>1 DEF DraftParts, OneActiveOnly, Active
<1>3. ASSUME NEW q \in Requests
      PROVE  KindOf(q)' /\ PostsOf(q)' /\ IdsOf(q)' /\ LookedOf(q)'
  <2>1. KindOf(q) /\ PostsOf(q) /\ IdsOf(q) /\ LookedOf(q)
    BY <1>1 DEF DraftParts
  <2>2. Missing(q)' = Missing(q) /\ FirstMissing(q)' = FirstMissing(q)
    BY DEF Missing, FirstMissing
  <2>3. KindOf(q)' /\ PostsOf(q)'
    BY <2>1, <2>2 DEF KindOf, PostsOf
  <2>4. IdsOf(q)'
    BY <2>1, <2>2 DEF IdsOf
  <2>5. \A s \in Stages : Overlooked(q, s)' = Overlooked(q, s)
    BY SameOverlooked
  <2>6. LookedOf(q)'
    BY <2>1, <2>2, <2>5, StageFacts DEF LookedOf, Missing
  <2> QED
    BY <2>3, <2>4, <2>6
<1>4. DraftKept'
  BY <1>2, <1>3, PartsPrimed DEF DraftParts
<1>5. StageMadeOnce'
  BY DEF DraftIInv, StageMadeOnce, SameParent
<1> QED
  BY <1>4, <1>5 DEF DraftIInv

LEMMA RefusedStep ==
  ASSUME DraftIInv, NEW o \in Objects, PostRefused(o) \/ PeopleSwitch(o)
  PROVE  DraftIInv'
<1>1. DraftTypeOK'
  BY RequestFacts DEF DraftIInv, DraftTypeOK, PostRefused, PeopleSwitch, draftServer
<1> QED
  BY <1>1, StillStep DEF PostRefused, PeopleSwitch, draftServer

\* An object made in time is the first of its stage that its request had looked for.
LEMMA MadeStep ==
  ASSUME DraftIInv, NEW o \in Objects, ObjectMade(o)
  PROVE  DraftIInv'
<1> DEFINE t == o[1]
           m == o[2]
<1>1. /\ DraftTypeOK /\ DraftParts /\ StageMadeOnce
      /\ t \in Stages /\ m \in Requests /\ o = <<t, m>>
      /\ o \in posting /\ posting' = posting \ {o} /\ objects' = objects \cup {o}
      /\ late' = IF draftPc[m] = "ended" THEN late \cup {o} ELSE late
      /\ UNCHANGED <<activated, draftPc, startOf, draftKind, oneShotStarted, ids, draftAnswer,
                     held>>
  BY Parts, ObjectFacts DEF DraftIInv, ObjectMade, draftServer
<1> HIDE DEF t, m
<1>2. PostsOf(m) /\ LookedOf(m)
  BY <1>1 DEF DraftParts
<1>3. /\ draftPc[m] \in {"wait", "ended"}
      /\ Parents(t) \cap Missing(m) = {}
      /\ draftPc[m] = "wait" => t = FirstMissing(m) /\ t \in Missing(m)
  BY <1>1, <1>2 DEF PostsOf
<1>4. DraftTypeOK'
  <2>1. posting \subseteq Objects /\ late \subseteq objects
    BY <1>1 DEF DraftTypeOK
  <2> QED
    BY <1>1, <2>1 DEF DraftTypeOK
<1>5. OneActiveOnly'
  BY <1>1 DEF DraftParts, OneActiveOnly, Active
<1>6. \A q \in Requests : Missing(q)' = Missing(q) /\ FirstMissing(q)' = FirstMissing(q)
  BY <1>1 DEF Missing, FirstMissing
<1>7. \A q \in Requests, s \in Stages : <<s, q>> = o <=> s = t /\ q = m
  BY <1>1
<1>8. ASSUME NEW q \in Requests, Active(q), NEW s \in Stages
      PROVE  Overlooked(q, s)' \subseteq Overlooked(q, s)
  <2>1. CASE draftPc[m] = "ended"
    BY <1>1, <2>1 DEF Overlooked, SameParent
  <2>2. CASE draftPc[m] = "wait"
    <3>1. m = q \/ startOf[m] # startOf[q]
      BY <1>1, <1>8, <2>2 DEF DraftParts, OneActiveOnly, Active
    <3> QED
      BY <1>1, <1>7, <3>1 DEF Overlooked, SameParent
  <2> QED
    BY <1>3, <2>1, <2>2
<1>9. ASSUME NEW q \in Requests
      PROVE  KindOf(q)' /\ PostsOf(q)' /\ IdsOf(q)' /\ LookedOf(q)'
  <2>1. KindOf(q) /\ PostsOf(q) /\ IdsOf(q) /\ LookedOf(q)
    BY <1>1 DEF DraftParts
  <2>2. KindOf(q)'
    BY <1>1, <2>1 DEF KindOf
  <2>3. IdsOf(q)'
    BY <1>1, <1>6, <2>1 DEF IdsOf
  <2>4. PostsOf(q)'
    <3>1. CASE q # m
      <4>1. \A s \in Stages : /\ <<s, q>> \in posting' <=> <<s, q>> \in posting
                              /\ <<s, q>> \in objects' <=> <<s, q>> \in objects
        BY <1>1, <1>7, <3>1
      <4> QED
        BY <1>1, <1>6, <2>1, <4>1 DEF PostsOf
    <3>2. CASE q = m
      <4>1. \A s \in Stages : /\ <<s, q>> \in posting' <=> <<s, q>> \in posting /\ s # t
                              /\ <<s, q>> \in objects' <=> <<s, q>> \in objects \/ s = t
        BY <1>1, <1>7, <3>2
      <4> QED
        BY <1>1, <1>3, <1>6, <2>1, <3>2, <4>1 DEF PostsOf
    <3> QED
      BY <3>1, <3>2
  <2>5. LookedOf(q)'
    <3>1. CASE Active(q)
      BY <1>1, <1>6, <1>8, <2>1, <3>1, StageFacts DEF LookedOf, Missing
    <3>2. CASE ~Active(q)
      BY <1>1, <3>2, LookedFacts DEF LookedOf, Active
    <3> QED
      BY <3>1, <3>2
  <2> QED
    BY <2>2, <2>3, <2>4, <2>5
<1>10. DraftKept'
  BY <1>4, <1>5, <1>9, PartsPrimed DEF DraftParts
<1>11. StageMadeOnce'
  <2>1. ASSUME NEW b \in objects, b # o, startOf[b[2]] = startOf[m], SameParent(o, b),
               draftPc[m] = "wait", b \notin late
        PROVE  FALSE
    <3>1. b[1] = t /\ b[2] \in Requests /\ b = <<t, b[2]>>
      BY <1>1, <2>1, ObjectFacts DEF SameParent, DraftTypeOK
    <3>2. b[2] # m
      BY <1>1, <2>1, <3>1
    <3>3. b[2] \in Overlooked(m, t)
      BY <1>1, <2>1, <3>1, <3>2 DEF Overlooked, SameParent
    <3>4. Overlooked(m, t) = {}
      BY <1>1, <1>2, <1>3, <2>1, LookedFacts DEF LookedOf
    <3> QED
      BY <3>3, <3>4
  <2>2. \A b \in objects : b # o /\ startOf[b[2]] = startOf[o[2]] /\ SameParent(o, b) =>
           b \in late' \/ o \in late'
    BY <1>1, <1>3, <2>1 DEF m
  <2>3. \A a, b : SameParent(a, b)' <=> SameParent(a, b)
    BY <1>1 DEF SameParent
  <2>4. \A a, b : SameParent(a, b) => SameParent(b, a)
    BY DEF SameParent
  <2>5. late \subseteq late'
    BY <1>1
  <2> QED
    BY <1>1, <2>2, <2>3, <2>4, <2>5 DEF StageMadeOnce
<1> QED
  BY <1>4, <1>10, <1>11 DEF DraftIInv

-----------------------------------------------------------------------------
LEMMA DraftInitIInv == DraftInit => DraftIInv
<1> SUFFICES ASSUME DraftInit PROVE DraftIInv
  OBVIOUS
<1>1. DraftTypeOK
  <2>1. ids \in [Requests -> [Stages -> Requests \cup {NoId}]]
    BY DEF DraftInit
  <2>2. draftPc \in [Requests -> {"new"}]
    BY DEF DraftInit
  <2> QED
    BY <2>1, <2>2 DEF DraftInit, DraftTypeOK
<1>2. OneActiveOnly
  BY DEF DraftInit, OneActiveOnly, Active
<1>3. ASSUME NEW r \in Requests
      PROVE  KindOf(r) /\ PostsOf(r) /\ IdsOf(r) /\ LookedOf(r)
  <2>1. draftPc[r] = "new" /\ \A s \in Stages : ids[r][s] = NoId
    BY DEF DraftInit
  <2>2. Missing(r) = Stages /\ "adset" \in Stages /\ NoId \notin Requests
    BY <2>1, StageFacts DEF Missing
  <2>3. KindOf(r)
    BY <2>1 DEF KindOf, Stages
  <2>4. PostsOf(r)
    BY DEF DraftInit, PostsOf
  <2>5. IdsOf(r)
    BY <2>1, <2>2, UnknownFacts DEF IdsOf
  <2>6. LookedOf(r)
    BY <2>1, LookedFacts DEF LookedOf
  <2> QED
    BY <2>3, <2>4, <2>5, <2>6
<1>4. DraftKept
  BY <1>1, <1>2, <1>3, Parts DEF DraftParts
<1>5. StageMadeOnce
  BY DEF DraftInit, StageMadeOnce
<1> QED
  BY <1>1, <1>4, <1>5 DEF DraftIInv

LEMMA DraftStep == ASSUME DraftIInv, [DraftNext]_draftVars PROVE DraftIInv'
<1>1. CASE UNCHANGED draftVars
  BY <1>1 DEF draftVars, metaProvider, draftServer, DraftIInv, DraftTypeOK, DraftKept, OneActive,
     PostsKept, IdsKept, NothingOverlooked, StageMadeOnce, Active, FirstMissing, Missing,
     Overlooked, SameParent
<1>2. CASE DraftNext
  BY <1>2, DraftBeginStep, PrepareStep, FindStep, OneShotFindStep, OneShotAdSetsStep, PostStep,
     PostedStep, VerifyStep, FailsStep, RestartStep, MadeStep, RefusedStep DEF DraftNext
<1> QED
  BY <1>1, <1>2

\* The invariant of the draft: one request of a start time at a time, and nothing missed by
\* the one that is under way but what Meta carried out late.
THEOREM DraftInductive == DraftSpec => []DraftIInv
<1> QED
  BY DraftInitIInv, DraftStep, PTL DEF DraftSpec

\* However many requests there are and whenever they fail, lose an answer or die with their
\* process, the draft has no stage twice, but for a POST carried out after its request.
THEOREM DraftStageMadeOnce == DraftSpec => []StageMadeOnce
<1>1. DraftIInv => StageMadeOnce
  BY DEF DraftIInv
<1> QED
  BY <1>1, DraftInductive, PTL
================================================================================
