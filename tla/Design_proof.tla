---------------------------- MODULE Design_proof ----------------------------
(***************************************************************************)
(* Proofs about Design, for any number of builders, deaths and reworks:    *)
(* the stored histories replay until the final approval is kept, a gate    *)
(* is passed before the documents behind it are kept, the final state is   *)
(* earned, and the design climbs the ladder of approvals.                  *)
(*                                                                         *)
(* The builders share no lock over a command: they append drafts decided   *)
(* from what they read some steps ago, and only a revision number can      *)
(* refuse them.  So what is inductive is that a draft still in a queue may *)
(* be recorded after whatever others record before it (Queued): a state if *)
(* its revision is free (StateAllowed), documents and features whenever.   *)
(* A decision is judged at the latest stored state it was made from, one   *)
(* lemma per state.  The one state that does not follow its predecessor    *)
(* is Repeats, which needs a kept final approval.                          *)
(***************************************************************************)
EXTENDS Design, TLAPS

(* Sequences: prefixes by their elements, and what a concatenation holds.  *)
LEMMA PrefixByElements ==
    ASSUME NEW S, NEW s \in Seq(S), NEW t \in Seq(S)
    PROVE  IsPrefix(s, t) <=> Len(s) <= Len(t) /\ \A i \in 1 .. Len(s) : s[i] = t[i]
<1>1. CASE Len(s) <= Len(t)
  <2>1. Len(SubSeq(s, 1, Len(s))) = Len(s) /\ Len(SubSeq(t, 1, Len(s))) = Len(s)
    BY <1>1
  <2>2. \A i \in 1 .. Len(s) : SubSeq(s, 1, Len(s))[i] = s[i] /\ SubSeq(t, 1, Len(s))[i] = t[i]
    BY <1>1
  <2>3. SubSeq(s, 1, Len(s)) \in Seq(S) /\ SubSeq(t, 1, Len(s)) \in Seq(S)
    BY <1>1
  <2> QED
    BY <1>1, <2>1, <2>2, <2>3 DEF IsPrefix
<1>2. CASE ~(Len(s) <= Len(t))
  BY <1>2 DEF IsPrefix
<1> QED
  BY <1>1, <1>2

LEMMA ConcatElements ==
    ASSUME NEW S, NEW s \in Seq(S), NEW t \in Seq(S)
    PROVE  /\ s \o t \in Seq(S) /\ Len(s \o t) = Len(s) + Len(t)
           /\ \A i \in 1 .. Len(s) : (s \o t)[i] = s[i]
           /\ \A i \in 1 .. Len(t) : (s \o t)[Len(s) + i] = t[i]
OBVIOUS

LEMMA ConcatRange ==
    ASSUME NEW S, NEW s \in Seq(S), NEW t \in Seq(S)
    PROVE  s \o t \in Seq(S) /\ Range(s \o t) = Range(s) \union Range(t)
<1>1. s \o t \in Seq(S) /\ Len(s \o t) = Len(s) + Len(t)
  BY ConcatElements
<1>2. \A i \in 1 .. Len(s) : (s \o t)[i] = s[i]
  BY ConcatElements
<1>3. \A i \in 1 .. Len(t) : (s \o t)[Len(s) + i] = t[i]
  BY ConcatElements
<1>4. DOMAIN (s \o t) = 1 .. Len(s) + Len(t) /\ DOMAIN s = 1 .. Len(s) /\ DOMAIN t = 1 .. Len(t)
  BY <1>1
<1>5. ASSUME NEW x \in Range(s \o t) PROVE x \in Range(s) \union Range(t)
  <2>1. PICK i \in 1 .. Len(s) + Len(t) : x = (s \o t)[i]
    BY <1>4 DEF Range
  <2>2. CASE i <= Len(s)
    BY <1>2, <1>4, <2>1, <2>2 DEF Range
  <2>3. CASE ~(i <= Len(s))
    <3>1. i - Len(s) \in 1 .. Len(t) /\ Len(s) + (i - Len(s)) = i
      BY <2>1, <2>3
    <3>2. x = t[i - Len(s)]
      BY <1>3, <2>1, <3>1
    <3> QED
      BY <1>4, <3>1, <3>2 DEF Range
  <2> QED
    BY <2>2, <2>3
<1>6. ASSUME NEW x \in Range(s) \union Range(t) PROVE x \in Range(s \o t)
  <2>1. CASE x \in Range(s)
    <3>1. PICK i \in 1 .. Len(s) : x = s[i]
      BY <1>4, <2>1 DEF Range
    <3>2. i \in DOMAIN (s \o t) /\ (s \o t)[i] = x
      BY <1>2, <1>4, <3>1
    <3> QED
      BY <3>2 DEF Range
  <2>2. CASE x \in Range(t)
    <3>1. PICK i \in 1 .. Len(t) : x = t[i]
      BY <1>4, <2>2 DEF Range
    <3>2. Len(s) + i \in DOMAIN (s \o t) /\ (s \o t)[Len(s) + i] = x
      BY <1>3, <1>4, <3>1
    <3> QED
      BY <3>2 DEF Range
  <2> QED
    BY <2>1, <2>2
<1> QED
  BY <1>1, <1>5, <1>6

-----------------------------------------------------------------------------
(* The drafts of a set of documents are drafts of exactly these documents. *)
DocDraft == [to : {"docs"}, rev : {1}, row : Document]

LEMMA DocumentDraftsRange ==
    ASSUME NEW M \in SUBSET Document, Single(M)
    PROVE  /\ DocumentDrafts(M) \in Seq(DocDraft)
           /\ Range(DocumentDrafts(M)) = {[to |-> "docs", rev |-> 1, row |-> d] : d \in M}
<1> DEFINE Of(t) == IF t \in TypesOf(M)
                    THEN <<[to |-> "docs", rev |-> 1, row |-> CHOOSE d \in M : d.type = t]>>
                    ELSE <<>>
           Row(t) == {[to |-> "docs", rev |-> 1, row |-> d] : d \in {e \in M : e.type = t}}
           Nth(i) == Of(PersistOrder[i])
           Rows(n) == {[to |-> "docs", rev |-> 1, row |-> d] :
                         d \in {e \in M : \E i \in 1 .. n : e.type = PersistOrder[i]}}
<1>1. ASSUME NEW t PROVE Of(t) \in Seq(DocDraft) /\ Range(Of(t)) = Row(t)
  <2>1. CASE t \in TypesOf(M)
    <3> DEFINE d == CHOOSE d \in M : d.type = t
               e == [to |-> "docs", rev |-> 1, row |-> d]
    <3>1. d \in M /\ d.type = t
      BY <2>1 DEF TypesOf
    <3>2. {x \in M : x.type = t} = {d}
      BY <3>1 DEF Single
    <3>3. e \in DocDraft /\ Of(t) = <<e>>
      BY <2>1, <3>1 DEF DocDraft
    <3>4. Row(t) = {e}
      BY <3>2
    <3> HIDE DEF e, Of, Row
    <3>5. Range(<<e>>) = {e}
      BY DEF Range
    <3> QED
      BY <3>3, <3>4, <3>5
  <2>2. CASE t \notin TypesOf(M)
    <3>1. Of(t) = <<>> /\ Row(t) = {}
      BY <2>2 DEF TypesOf
    <3>2. Range(<<>>) = {} /\ <<>> \in Seq(DocDraft)
      BY DEF Range
    <3> HIDE DEF Of, Row
    <3> QED
      BY <3>1, <3>2
  <2> QED
    BY <2>1, <2>2
<1>2. \A i \in 1 .. 12 : Nth(i) \in Seq(DocDraft) /\ Range(Nth(i)) = Row(PersistOrder[i])
  BY <1>1
<1> DEFINE s2 == Nth(1) \o Nth(2)
           s3 == s2 \o Nth(3)
           s4 == s3 \o Nth(4)
           s5 == s4 \o Nth(5)
           s6 == s5 \o Nth(6)
           s7 == s6 \o Nth(7)
           s8 == s7 \o Nth(8)
           s9 == s8 \o Nth(9)
           s10 == s9 \o Nth(10)
           s11 == s10 \o Nth(11)
           s12 == s11 \o Nth(12)
<1>3. DocumentDrafts(M) = s12
  BY DEF DocumentDrafts
<1>4. \A n \in 1 .. 11 : Rows(n) \union Row(PersistOrder[n + 1]) = Rows(n + 1)
  <2> TAKE n \in 1 .. 11
  <2>1. \A i \in 1 .. n + 1 : i \in 1 .. n \/ i = n + 1
    OBVIOUS
  <2>2. 1 .. n \subseteq 1 .. n + 1 /\ n + 1 \in 1 .. n + 1
    OBVIOUS
  <2>3. \A e \in M : (\E i \in 1 .. n + 1 : e.type = PersistOrder[i])
                       <=> (\E i \in 1 .. n : e.type = PersistOrder[i])
                             \/ e.type = PersistOrder[n + 1]
    BY <2>1, <2>2
  <2> QED
    BY <2>3
<1>5. Row(PersistOrder[1]) = Rows(1)
  <2>1. \A i \in 1 .. 1 : i = 1
    OBVIOUS
  <2>2. 1 \in 1 .. 1
    OBVIOUS
  <2> QED
    BY <2>1, <2>2
<1> HIDE DEF Nth, Row, Rows, Of
<1>6. ASSUME NEW n \in 1 .. 11, NEW s \in Seq(DocDraft), Range(s) = Rows(n)
      PROVE  s \o Nth(n + 1) \in Seq(DocDraft) /\ Range(s \o Nth(n + 1)) = Rows(n + 1)
  <2>1. n + 1 \in 1 .. 12
    OBVIOUS
  <2>2. Nth(n + 1) \in Seq(DocDraft) /\ Range(Nth(n + 1)) = Row(PersistOrder[n + 1])
    BY <1>2, <2>1, Zenon
  <2>3. Rows(n) \union Row(PersistOrder[n + 1]) = Rows(n + 1)
    BY <1>4, Zenon
  <2> DEFINE t == Nth(n + 1)
  <2>4. t \in Seq(DocDraft) /\ Range(s) \union Range(t) = Rows(n + 1)
    BY <1>6, <2>2, <2>3, Zenon
  <2> HIDE DEF t
  <2>5. s \o t \in Seq(DocDraft) /\ Range(s \o t) = Range(s) \union Range(t)
    BY <2>4, ConcatRange
  <2> QED
    BY <2>4, <2>5 DEF t
<1>7. Nth(1) \in Seq(DocDraft) /\ Range(Nth(1)) = Rows(1)
  BY <1>2, <1>5
<1>8. 1 + 1 = 2 /\ 2 + 1 = 3 /\ 3 + 1 = 4 /\ 4 + 1 = 5 /\ 5 + 1 = 6 /\ 6 + 1 = 7
      /\ 7 + 1 = 8 /\ 8 + 1 = 9 /\ 9 + 1 = 10 /\ 10 + 1 = 11 /\ 11 + 1 = 12
  OBVIOUS
<1>9. s2 \in Seq(DocDraft) /\ Range(s2) = Rows(2)
  BY <1>6, <1>7, <1>8 DEF s2
<1> HIDE DEF s2
<1>10. s3 \in Seq(DocDraft) /\ Range(s3) = Rows(3)
  BY <1>6, <1>9, <1>8 DEF s3
<1> HIDE DEF s3
<1>11. s4 \in Seq(DocDraft) /\ Range(s4) = Rows(4)
  BY <1>6, <1>10, <1>8 DEF s4
<1> HIDE DEF s4
<1>12. s5 \in Seq(DocDraft) /\ Range(s5) = Rows(5)
  BY <1>6, <1>11, <1>8 DEF s5
<1> HIDE DEF s5
<1>13. s6 \in Seq(DocDraft) /\ Range(s6) = Rows(6)
  BY <1>6, <1>12, <1>8 DEF s6
<1> HIDE DEF s6
<1>14. s7 \in Seq(DocDraft) /\ Range(s7) = Rows(7)
  BY <1>6, <1>13, <1>8 DEF s7
<1> HIDE DEF s7
<1>15. s8 \in Seq(DocDraft) /\ Range(s8) = Rows(8)
  BY <1>6, <1>14, <1>8 DEF s8
<1> HIDE DEF s8
<1>16. s9 \in Seq(DocDraft) /\ Range(s9) = Rows(9)
  BY <1>6, <1>15, <1>8 DEF s9
<1> HIDE DEF s9
<1>17. s10 \in Seq(DocDraft) /\ Range(s10) = Rows(10)
  BY <1>6, <1>16, <1>8 DEF s10
<1> HIDE DEF s10
<1>18. s11 \in Seq(DocDraft) /\ Range(s11) = Rows(11)
  BY <1>6, <1>17, <1>8 DEF s11
<1> HIDE DEF s11
<1>19. s12 \in Seq(DocDraft) /\ Range(s12) = Rows(12)
  BY <1>6, <1>18, <1>8 DEF s12
<1> HIDE DEF s12
<1>20. Rows(12) = {[to |-> "docs", rev |-> 1, row |-> d] : d \in M}
  <2>1. ASSUME NEW e \in M PROVE \E i \in 1 .. 12 : e.type = PersistOrder[i]
    <3>1. e.type \in Types
      BY DEF Document
    <3>2. \A t \in Types : \E i \in 1 .. 12 : t = PersistOrder[i]
      BY DEF Types, CriticalTypes, StandardTypes, LiteTypes, PersistOrder
    <3> QED
      BY <3>1, <3>2
  <2> QED
    BY <2>1 DEF Rows
<1> QED
  BY <1>3, <1>19, <1>20 DEF s12

-----------------------------------------------------------------------------
(* Levels and classes.                                                     *)
LEMMA Constants ==
    /\ MaxDeaths \in Nat /\ MaxRevision \in Nat \ {0}
    /\ Graphs \subseteq SUBSET Document
    /\ \A l \in Levels : BriefOf[l] \in Payloads /\ LevelOf[BriefOf[l]] = l
    /\ Records \subseteq Record /\ Signed \subseteq Records
BY GraphsAssumption, BriefAssumption, RecordAssumption, BoundAssumption

LEMMA ClassLevels ==
    ASSUME class \in Classes
    PROVE  /\ ApprovedLevel \in Levels /\ Effective(class) \in Levels
           /\ NeedsDowngrade(class) \in BOOLEAN
           /\ NeedsDowngrade(class) =>
                /\ Effective(class) = "CRITICAL" /\ ApprovedLevel = class.requested
                /\ ApprovedLevel # "NOT_APPLICABLE"
           /\ ~NeedsDowngrade(class) => ApprovedLevel = Effective(class)
<1>1. class \in Classification /\ Classifiable(class)
  BY ClassAssumption
<1>2. /\ class.requested \in Levels \union {"AUTO"}
      /\ class.risk \in {"NONE", "STANDARD", "CRITICAL"} /\ class.ui \in BOOLEAN
  BY <1>1 DEF Classification
<1>3. Recommended(class) \in Levels
  BY <1>2 DEF Recommended, Levels
<1>4. NeedsDowngrade(class) => class.requested \in {"LITE", "STANDARD"}
  <2>1. NeedsDowngrade(class) => class.ui
    BY <1>2 DEF NeedsDowngrade, Recommended
  <2>2. class.ui => class.requested # "NOT_APPLICABLE"
    BY <1>1 DEF Classifiable
  <2> QED
    BY <1>2, <2>1, <2>2 DEF NeedsDowngrade, Levels
<1>5. Effective(class) \in Levels /\ (NeedsDowngrade(class) => Effective(class) = "CRITICAL")
  BY <1>2, <1>3, <1>4 DEF Effective, Levels
<1> QED
  BY <1>4, <1>5 DEF ApprovedLevel, Levels, NeedsDowngrade

LEMMA LevelTypes ==
    ASSUME NEW level \in Levels
    PROVE  /\ Required(level) \subseteq Types /\ "design-brief" \in Required(level)
           /\ level = "NOT_APPLICABLE" => Required(level) = {"design-brief"}
           /\ level # "NOT_APPLICABLE" =>
                /\ "design-approval" \in Required(level)
                /\ "design-system" \in Required(level)
           /\ NonFinal(level) \subseteq Required(level)
           /\ "design-brief" \in NonFinal(level) /\ "design-approval" \notin NonFinal(level)
           /\ Required(level) \subseteq NonFinal(level) \union {"design-approval"}
BY DEF Levels, Required, Types, CriticalTypes, StandardTypes, LiteTypes, NonFinal

-----------------------------------------------------------------------------
(* Approvals: a canonical list is known by its length.  Skip counts the    *)
(* downgrade approval that comes before the three of every design.         *)
Skip == IF NeedsDowngrade(class) THEN 1 ELSE 0

LEMMA OrderFacts ==
    /\ KindOrder \in Seq(Kinds) /\ Len(KindOrder) = Skip + 3 /\ Skip \in {0, 1}
    /\ KindOrder[Skip + 1] = "VISUAL_DIRECTION" /\ KindOrder[Skip + 2] = "DESIGN_SYSTEM"
    /\ KindOrder[Skip + 3] = "FINAL"
    /\ NeedsDowngrade(class) => Skip = 1 /\ KindOrder[1] = "CRITICAL_DOWNGRADE"
    /\ \A i, j \in 1 .. Skip + 3 : KindOrder[i] = KindOrder[j] => i = j
<1> DEFINE last == <<"VISUAL_DIRECTION", "DESIGN_SYSTEM", "FINAL">>
           first == <<"CRITICAL_DOWNGRADE">>
<1>1. /\ last \in Seq(Kinds) /\ Len(last) = 3 /\ last[1] = "VISUAL_DIRECTION"
      /\ last[2] = "DESIGN_SYSTEM" /\ last[3] = "FINAL"
  BY DEF Kinds
<1>2. first \in Seq(Kinds) /\ Len(first) = 1 /\ first[1] = "CRITICAL_DOWNGRADE"
  BY DEF Kinds
<1>3. CASE NeedsDowngrade(class)
  <2>1. KindOrder = first \o last
    BY <1>3 DEF KindOrder
  <2>2. Skip = 1
    BY <1>3 DEF Skip
  <2> HIDE DEF first, last
  <2>3. first \o last \in Seq(Kinds) /\ Len(first \o last) = Len(first) + Len(last)
    BY <1>1, <1>2, ConcatElements
  <2>4. /\ (first \o last)[1] = first[1] /\ (first \o last)[2] = last[1]
        /\ (first \o last)[3] = last[2] /\ (first \o last)[4] = last[3]
    <3>1. first \in Seq(Kinds) /\ last \in Seq(Kinds)
      BY <1>1, <1>2
    <3>2. /\ \A i \in 1 .. Len(first) : (first \o last)[i] = first[i]
          /\ \A i \in 1 .. Len(last) : (first \o last)[Len(first) + i] = last[i]
      BY <3>1, ConcatElements
    <3>3. Len(first) = 1 /\ Len(last) = 3
      BY <1>1, <1>2
    <3>4. /\ 1 \in 1 .. Len(first) /\ {1, 2, 3} \subseteq 1 .. Len(last)
          /\ Len(first) + 1 = 2 /\ Len(first) + 2 = 3 /\ Len(first) + 3 = 4
      BY <3>3
    <3>5. /\ (first \o last)[1] = first[1]
          /\ (first \o last)[Len(first) + 1] = last[1]
          /\ (first \o last)[Len(first) + 2] = last[2]
          /\ (first \o last)[Len(first) + 3] = last[3]
      BY <3>2, <3>4, Zenon
    <3> QED
      BY <3>4, <3>5, Zenon
  <2>5. \A i \in 1 .. 4 : i \in {1, 2, 3, 4}
    OBVIOUS
  <2>6. \A i, j \in 1 .. 4 : KindOrder[i] = KindOrder[j] => i = j
    BY <1>1, <1>2, <2>1, <2>4, <2>5
  <2> QED
    BY <1>1, <1>2, <2>1, <2>2, <2>3, <2>4, <2>6
<1>4. CASE ~NeedsDowngrade(class)
  <2>1. KindOrder = <<>> \o last
    BY <1>4 DEF KindOrder
  <2>2. Skip = 0
    BY <1>4 DEF Skip
  <2> HIDE DEF last
  <2>3. KindOrder = last
    BY <1>1, <2>1
  <2>4. \A i \in 1 .. 3 : i \in {1, 2, 3}
    OBVIOUS
  <2>5. \A i, j \in 1 .. 3 : last[i] = last[j] => i = j
    BY <1>1, <2>4
  <2> QED
    BY <1>1, <1>4, <2>2, <2>3, <2>5
<1> QED
  BY <1>3, <1>4

LEMMA KindsFacts ==
    ASSUME NEW a \in Seq(Records)
    PROVE  /\ KindsOf(a) \in Seq(Kinds) /\ Len(KindsOf(a)) = Len(a)
           /\ \A i \in 1 .. Len(a) : KindsOf(a)[i] = a[i].kind
<1>1. \A i \in 1 .. Len(a) : a[i].kind \in Kinds
  BY Constants DEF Record
<1> QED
  BY <1>1 DEF KindsOf

Canonical(a) == a \in Seq(Records) /\ IsPrefix(KindsOf(a), KindOrder)

LEMMA CanonicalKinds ==
    ASSUME NEW a \in Seq(Records)
    PROVE  Canonical(a) <=> Len(a) <= Skip + 3 /\ \A i \in 1 .. Len(a) : a[i].kind = KindOrder[i]
BY KindsFacts, OrderFacts, PrefixByElements DEF Canonical

LEMMA HoldsByLength ==
    ASSUME NEW a, Canonical(a)
    PROVE  /\ Len(a) \in 0 .. Skip + 3
           /\ Holds(a, "VISUAL_DIRECTION") <=> Len(a) >= Skip + 1
           /\ Holds(a, "DESIGN_SYSTEM") <=> Len(a) >= Skip + 2
           /\ Holds(a, "FINAL") <=> Len(a) = Skip + 3
           /\ NeedsDowngrade(class) => (Holds(a, "CRITICAL_DOWNGRADE") <=> Len(a) >= 1)
<1>1. a \in Seq(Records)
  BY DEF Canonical
<1>2. Len(a) <= Skip + 3 /\ \A i \in 1 .. Len(a) : a[i].kind = KindOrder[i]
  BY <1>1, CanonicalKinds
<1>3. ASSUME NEW k PROVE Holds(a, k) <=> \E i \in 1 .. Len(a) : KindOrder[i] = k
  <2>1. DOMAIN a = 1 .. Len(a)
    BY <1>1
  <2> QED
    BY <1>2, <2>1 DEF Holds
<1>4. Len(a) \in Nat /\ Skip \in {0, 1}
  BY <1>1, OrderFacts
<1>5. ASSUME NEW n \in 1 .. Skip + 3 PROVE Holds(a, KindOrder[n]) <=> n <= Len(a)
  <2>1. Holds(a, KindOrder[n]) <=> \E i \in 1 .. Len(a) : KindOrder[i] = KindOrder[n]
    BY <1>3
  <2>2. \A i \in 1 .. Len(a) : i \in 1 .. Skip + 3 /\ (KindOrder[i] = KindOrder[n] => i = n)
    BY <1>2, <1>4, OrderFacts
  <2>3. n <= Len(a) => n \in 1 .. Len(a)
    BY <1>4
  <2>4. n \in 1 .. Len(a) => n <= Len(a)
    BY <1>4
  <2> QED
    BY <2>1, <2>2, <2>3, <2>4
<1>6. Holds(a, "VISUAL_DIRECTION") <=> Skip + 1 <= Len(a)
  BY <1>4, <1>5, OrderFacts
<1>7. Holds(a, "DESIGN_SYSTEM") <=> Skip + 2 <= Len(a)
  BY <1>4, <1>5, OrderFacts
<1>8. Holds(a, "FINAL") <=> Skip + 3 <= Len(a)
  BY <1>4, <1>5, OrderFacts
<1>9. NeedsDowngrade(class) => (Holds(a, "CRITICAL_DOWNGRADE") <=> 1 <= Len(a))
  BY <1>4, <1>5, OrderFacts
<1> QED
  BY <1>2, <1>4, <1>6, <1>7, <1>8, <1>9

(* What an input may add to the approvals that are recorded.               *)
LEMMA SameKinds ==
    ASSUME NEW a \in Seq(Records), NEW prior \in Seq(Records), IsPrefix(prior, a),
           KindsOf(a) = KindsOf(prior) \o <<>>
    PROVE  a = prior
<1>1. /\ KindsOf(a) \in Seq(Kinds) /\ Len(KindsOf(a)) = Len(a)
      /\ KindsOf(prior) \in Seq(Kinds) /\ Len(KindsOf(prior)) = Len(prior)
  BY KindsFacts
<1>2. Len(prior) <= Len(a) /\ \A i \in 1 .. Len(prior) : prior[i] = a[i]
  BY PrefixByElements
<1>3. Len(KindsOf(prior) \o <<>>) = Len(prior)
  BY <1>1
<1>4. Len(a) = Len(prior)
  BY <1>1, <1>3
<1> QED
  BY <1>2, <1>4

LEMMA OneMoreKind ==
    ASSUME NEW a \in Seq(Records), NEW prior \in Seq(Records), IsPrefix(prior, a),
           NEW k \in Kinds, KindsOf(a) = KindsOf(prior) \o <<k>>
    PROVE  /\ Len(a) = Len(prior) + 1 /\ a[Len(a)].kind = k
           /\ \A i \in 1 .. Len(prior) : a[i].kind = prior[i].kind
<1>1. /\ KindsOf(a) \in Seq(Kinds) /\ Len(KindsOf(a)) = Len(a)
      /\ KindsOf(prior) \in Seq(Kinds) /\ Len(KindsOf(prior)) = Len(prior)
      /\ \A i \in 1 .. Len(a) : KindsOf(a)[i] = a[i].kind
  BY KindsFacts
<1>2. Len(prior) <= Len(a) /\ \A i \in 1 .. Len(prior) : prior[i] = a[i]
  BY PrefixByElements
<1>3. /\ Len(KindsOf(prior) \o <<k>>) = Len(prior) + 1
      /\ (KindsOf(prior) \o <<k>>)[Len(prior) + 1] = k
  BY <1>1
<1> QED
  BY <1>1, <1>2, <1>3

LEMMA NoApprovals ==
    Canonical(<<>>) /\ \A k : ~Holds(<<>>, k)
<1>1. <<>> \in Seq(Records) /\ Len(<<>>) = 0 /\ DOMAIN <<>> = {}
  OBVIOUS
<1>2. Len(<<>>) <= Skip + 3 /\ \A i \in 1 .. Len(<<>>) : <<>>[i].kind = KindOrder[i]
  BY <1>1, OrderFacts
<1>3. Canonical(<<>>)
  BY <1>1, <1>2, CanonicalKinds
<1> QED
  BY <1>1, <1>3 DEF Holds

(* State and gate, read off the number of approvals.                       *)
LEMMA StateByLength ==
    ASSUME NEW a, Canonical(a), NEW kept, NEW level \in Levels,
           level = "NOT_APPLICABLE" => a = <<>>
    PROVE  LET state == StateOf(level, a, kept) IN
           /\ state \in StateNames \ {"INITIALIZED", "DOWNGRADE_PENDING"}
           /\ level = "NOT_APPLICABLE" <=> state = "NOT_APPLICABLE"
           /\ level # "NOT_APPLICABLE" =>
                /\ state = "DIRECTION_PENDING" <=> Len(a) <= Skip
                /\ state = "SYSTEM_PENDING" <=> Len(a) = Skip + 1
                /\ state = "SYSTEM_APPROVED" <=>
                      Len(a) >= Skip + 2 /\ ~(NonFinal(level) \subseteq TypesOf(kept))
                /\ state = "APPROVED" <=>
                      /\ Len(a) = Skip + 3 /\ NonFinal(level) \subseteq TypesOf(kept)
                      /\ "design-approval" \in TypesOf(kept)
                /\ state = "FINAL_APPROVAL_PENDING" <=>
                      /\ Len(a) >= Skip + 2 /\ NonFinal(level) \subseteq TypesOf(kept)
                      /\ Len(a) = Skip + 3 => "design-approval" \notin TypesOf(kept)
<1>1. /\ Len(a) \in 0 .. Skip + 3 /\ Skip \in {0, 1}
      /\ Holds(a, "VISUAL_DIRECTION") <=> Len(a) >= Skip + 1
      /\ Holds(a, "DESIGN_SYSTEM") <=> Len(a) >= Skip + 2
      /\ Holds(a, "FINAL") <=> Len(a) = Skip + 3
  BY HoldsByLength, OrderFacts
<1> DEFINE state == StateOf(level, a, kept)
           all == NonFinal(level) \subseteq TypesOf(kept)
<1>2. CASE level = "NOT_APPLICABLE"
  <2>1. state = "NOT_APPLICABLE"
    BY <1>2, NoApprovals DEF StateOf
  <2> HIDE DEF state
  <2> QED
    BY <1>2, <2>1 DEF StateNames, state
<1>3. CASE level # "NOT_APPLICABLE" /\ Len(a) <= Skip
  <2>1. state = "DIRECTION_PENDING"
    BY <1>1, <1>3 DEF StateOf
  <2> HIDE DEF state
  <2> QED
    BY <1>1, <1>3, <2>1 DEF StateNames, state
<1>4. CASE level # "NOT_APPLICABLE" /\ Len(a) = Skip + 1
  <2>1. state = "SYSTEM_PENDING"
    BY <1>1, <1>4 DEF StateOf
  <2> HIDE DEF state
  <2> QED
    BY <1>1, <1>4, <2>1 DEF StateNames, state
<1>5. CASE level # "NOT_APPLICABLE" /\ Len(a) >= Skip + 2 /\ ~all
  <2>1. state = "SYSTEM_APPROVED"
    BY <1>1, <1>5 DEF StateOf
  <2> HIDE DEF state
  <2> QED
    BY <1>1, <1>5, <2>1 DEF StateNames, state
<1>6. CASE level # "NOT_APPLICABLE" /\ Len(a) >= Skip + 2 /\ all
  <2>1. state = IF Len(a) = Skip + 3 /\ "design-approval" \in TypesOf(kept)
                THEN "APPROVED" ELSE "FINAL_APPROVAL_PENDING"
    BY <1>1, <1>6 DEF StateOf
  <2> HIDE DEF state
  <2> QED
    BY <1>1, <1>6, <2>1 DEF StateNames, state
<1> QED
  BY <1>1, <1>2, <1>3, <1>4, <1>5, <1>6

-----------------------------------------------------------------------------
(* The invariant.  A state that a command has drafted is one that may be   *)
(* recorded at its revision whatever the others record before it, because  *)
(* what StateAllowed says of earlier revisions does not change any more.   *)

(* s is the state after previous, once more, with the final approval       *)
(* document among its documents.                                           *)
Repeats(s, previous) ==
    /\ s.state = "FINAL_APPROVAL_PENDING" /\ previous.state = "FINAL_APPROVAL_PENDING"
    /\ s.level = previous.level /\ s.pending = previous.pending
    /\ s.approvals = previous.approvals /\ s.commits = previous.commits
    /\ "design-approval" \in TypesOf(s.kept)

(* What every recorded state has beyond SnapshotValid.                     *)
Shaped(s) ==
    /\ SnapshotValid(s)
    /\ s.state = "DOWNGRADE_PENDING" => s.pending
    /\ s.level = "NOT_APPLICABLE" => s.kept = s.commits
    /\ Holds(s.approvals, "FINAL") => s.state = "APPROVED"

StateAllowed(n, s) ==
    /\ n \in 1 .. Len(states) + 1
    /\ Shaped(s)
    /\ n = 1 => IsRoot(s)
    /\ n > 1 => Follows(s, states[n - 1]) \/ Repeats(s, states[n - 1])
    /\ \A k \in 2 .. n - 1 : Follows(states[k], states[k - 1])

DocAllowed(d) ==
    IF ApprovedLevel = "NOT_APPLICABLE" THEN d.type = "design-brief"
    ELSE \E n \in DOMAIN states :
            /\ states[n].state = "SYSTEM_APPROVED"
            /\ d \in states[n].commits
            /\ d.type = "design-approval" =>
                  /\ \E m \in DOMAIN states : states[m].state = "FINAL_APPROVAL_PENDING"
                  /\ \E r \in Signed :
                        r.kind = "FINAL" /\ Bound(r, ApprovedLevel, states[n].commits)

FeatureAllowed(n, row) ==
    /\ n \in 1 .. Len(feature) + 1
    /\ StageRank(row.stage) >= n
    /\ n > 1 => /\ StageRank(row.stage) > StageRank(feature[n - 1].stage)
                /\ row.base = feature[1].base

DraftAllowed(d) ==
    /\ d.to = "docs" => DocAllowed(d.row)
    /\ d.to = "states" => StateAllowed(d.rev, d.row)
    /\ d.to = "feature" => FeatureAllowed(d.rev, d.row)

(* A state comes last, and its documents are stored or come before it.     *)
Queued(q) ==
    \A i \in DOMAIN q :
        /\ DraftAllowed(q[i])
        /\ q[i].to = "states" =>
              /\ i = Len(q)
              /\ \A d \in q[i].row.kept :
                    d \in docs \/ \E j \in DOMAIN q : q[j].to = "docs" /\ q[j].row = d

DocsGated == Single(docs) /\ \A d \in docs : DocAllowed(d)

StatesProper ==
    \A n \in DOMAIN states : StateAllowed(n, states[n]) /\ states[n].kept \subseteq docs

(* States climb, and have one set of commitments once they have all.       *)
StatesClimb ==
    \A m, n \in DOMAIN states :
        /\ m < n => /\ Rank(states[m].state) < 5
                    /\ Rank(states[m].state) <= Rank(states[n].state)
        /\ ~Bootstrapped(states[m]) /\ ~Bootstrapped(states[n])
              => states[m].commits = states[n].commits

FeatureProper == \A n \in DOMAIN feature : FeatureAllowed(n, feature[n])

QueuesProper == \A c \in Clients : Queued(work[c])

DInv ==
    /\ TypeOK
    /\ DocsGated /\ StatesProper /\ StatesClimb /\ FeatureProper /\ QueuesProper

-----------------------------------------------------------------------------
(* What a recorded state looks like.                                       *)
LEMMA Ranks ==
    ASSUME NEW state \in StateNames
    PROVE  /\ Rank(state) \in 0 .. 5
           /\ Rank(state) = 0 <=> state \in {"INITIALIZED", "DOWNGRADE_PENDING"}
           /\ Rank(state) = 1 <=> state = "DIRECTION_PENDING"
           /\ Rank(state) = 2 <=> state = "SYSTEM_PENDING"
           /\ Rank(state) = 3 <=> state = "SYSTEM_APPROVED"
           /\ Rank(state) = 4 <=> state = "FINAL_APPROVAL_PENDING"
           /\ Rank(state) = 5 <=> state \in {"APPROVED", "NOT_APPLICABLE"}
BY DEF StateNames, Rank

LEMMA WholeKept ==
    ASSUME NEW g, Single(g), NEW kept \in SUBSET g, TypesOf(g) \subseteq TypesOf(kept)
    PROVE  kept = g
<1>1. ASSUME NEW d \in g PROVE d \in kept
  <2>1. PICK e \in kept : e.type = d.type
    BY DEF TypesOf
  <2> QED
    BY <2>1 DEF Single
<1> QED
  BY <1>1

LEMMA BootShape ==
    ASSUME class \in Classes, NEW s \in State, Shaped(s), Bootstrapped(s)
    PROVE  /\ s.approvals = <<>> /\ s.kept = {} /\ s.level # "NOT_APPLICABLE"
           /\ s.level = Effective(class)
           /\ s.pending <=> NeedsDowngrade(class)
           /\ s.state = "DOWNGRADE_PENDING" <=> NeedsDowngrade(class)
           /\ TypesOf(s.commits) = {"design-brief"}
<1>1. LevelValid(s) /\ (s.state = "DOWNGRADE_PENDING" => s.pending) /\ s.pending \in BOOLEAN
  BY DEF Shaped, SnapshotValid, State
<1>2. /\ s.approvals = <<>> /\ s.kept = {} /\ s.level # "NOT_APPLICABLE"
      /\ TypesOf(s.commits) = {"design-brief"}
  BY <1>1 DEF LevelValid
<1>3. s.pending <=> NeedsDowngrade(class)
  BY <1>1, <1>2, NoApprovals, ClassLevels DEF LevelValid
<1>4. s.level = Effective(class)
  BY <1>1, <1>3, ClassLevels DEF LevelValid
<1>5. s.state = "DOWNGRADE_PENDING" <=> NeedsDowngrade(class)
  BY <1>1, <1>3 DEF LevelValid
<1> QED
  BY <1>2, <1>3, <1>4, <1>5

LEMMA FullShape ==
    ASSUME class \in Classes, NEW s \in State, Shaped(s), ~Bootstrapped(s)
    PROVE  /\ s.pending = FALSE /\ s.level = ApprovedLevel
           /\ Canonical(s.approvals) /\ Genuine(s.approvals, ApprovedLevel, s.commits)
           /\ Single(s.commits) /\ s.kept \subseteq s.commits
           /\ TypesOf(s.commits) = Required(ApprovedLevel)
           /\ s.state = StateOf(ApprovedLevel, s.approvals, s.kept)
           /\ NeedsDowngrade(class) => Len(s.approvals) >= 1
           /\ ApprovedLevel = "NOT_APPLICABLE" => s.approvals = <<>> /\ s.kept = s.commits
           /\ s.state \in {"DIRECTION_PENDING", "SYSTEM_PENDING"} => s.kept = {}
<1>1. /\ LevelValid(s) /\ ProgressValid(s) /\ s.pending \in BOOLEAN
      /\ s.approvals \in Seq(Records)
      /\ s.level = "NOT_APPLICABLE" => s.kept = s.commits
  BY DEF Shaped, SnapshotValid, State
<1>2. s.pending = FALSE
  BY <1>1 DEF LevelValid, Bootstrapped
<1>3. s.level = ApprovedLevel
  BY <1>1, <1>2 DEF LevelValid
<1>4. Canonical(s.approvals)
  BY <1>1 DEF ProgressValid, Canonical
<1>5. NeedsDowngrade(class) => Holds(s.approvals, "CRITICAL_DOWNGRADE")
  BY <1>1, <1>2 DEF LevelValid
<1>6. NeedsDowngrade(class) => Len(s.approvals) >= 1
  BY <1>4, <1>5, HoldsByLength
<1>7. /\ Genuine(s.approvals, ApprovedLevel, s.commits)
      /\ s.state = StateOf(ApprovedLevel, s.approvals, s.kept)
      /\ ApprovedLevel = "NOT_APPLICABLE" => s.approvals = <<>>
      /\ s.state \in {"DIRECTION_PENDING", "SYSTEM_PENDING"} => s.kept = {}
  BY <1>1, <1>3 DEF ProgressValid
<1>8. /\ Single(s.commits) /\ s.kept \subseteq s.commits
      /\ TypesOf(s.commits) = Required(ApprovedLevel)
  BY <1>1, <1>3 DEF LevelValid
<1> QED
  BY <1>1, <1>2, <1>3, <1>4, <1>6, <1>7, <1>8

LEMMA GateShape ==
    ASSUME class \in Classes, NEW s \in State, Shaped(s), ~Bootstrapped(s)
    PROVE  /\ ApprovedLevel = "NOT_APPLICABLE" <=> s.state = "NOT_APPLICABLE"
           /\ ApprovedLevel # "NOT_APPLICABLE" =>
                /\ s.state = "DIRECTION_PENDING" <=> Len(s.approvals) = Skip
                /\ s.state = "SYSTEM_PENDING" <=> Len(s.approvals) = Skip + 1
                /\ s.state = "SYSTEM_APPROVED" =>
                      /\ Len(s.approvals) = Skip + 2
                      /\ ~(NonFinal(ApprovedLevel) \subseteq TypesOf(s.kept))
                /\ s.state = "FINAL_APPROVAL_PENDING" =>
                      /\ Len(s.approvals) = Skip + 2
                      /\ NonFinal(ApprovedLevel) \subseteq TypesOf(s.kept)
                /\ s.state = "APPROVED" <=> Len(s.approvals) = Skip + 3
                /\ s.state = "APPROVED" => s.kept = s.commits
<1>1. /\ Canonical(s.approvals) /\ s.state = StateOf(ApprovedLevel, s.approvals, s.kept)
      /\ ApprovedLevel = "NOT_APPLICABLE" => s.approvals = <<>>
      /\ NeedsDowngrade(class) => Len(s.approvals) >= 1
      /\ Single(s.commits) /\ s.kept \subseteq s.commits
      /\ TypesOf(s.commits) = Required(ApprovedLevel)
  BY FullShape
<1>2. Holds(s.approvals, "FINAL") => s.state = "APPROVED"
  BY DEF Shaped
<1>3. /\ Len(s.approvals) \in 0 .. Skip + 3
      /\ Holds(s.approvals, "FINAL") <=> Len(s.approvals) = Skip + 3
  BY <1>1, HoldsByLength
<1>4. ApprovedLevel \in Levels
  BY ClassLevels
<1>5. /\ ApprovedLevel = "NOT_APPLICABLE" <=> s.state = "NOT_APPLICABLE"
      /\ ApprovedLevel # "NOT_APPLICABLE" =>
           /\ s.state = "DIRECTION_PENDING" <=> Len(s.approvals) <= Skip
           /\ s.state = "SYSTEM_PENDING" <=> Len(s.approvals) = Skip + 1
           /\ s.state = "SYSTEM_APPROVED" <=>
                 /\ Len(s.approvals) >= Skip + 2
                 /\ ~(NonFinal(ApprovedLevel) \subseteq TypesOf(s.kept))
           /\ s.state = "APPROVED" <=>
                 /\ Len(s.approvals) = Skip + 3 /\ NonFinal(ApprovedLevel) \subseteq TypesOf(s.kept)
                 /\ "design-approval" \in TypesOf(s.kept)
           /\ s.state = "FINAL_APPROVAL_PENDING" =>
                 /\ Len(s.approvals) >= Skip + 2
                 /\ NonFinal(ApprovedLevel) \subseteq TypesOf(s.kept)
  BY <1>1, <1>4, StateByLength
<1>6. Skip \in {0, 1} /\ (Skip = 1 <=> NeedsDowngrade(class))
  BY DEF Skip
<1>7. s.state = "APPROVED" /\ ApprovedLevel # "NOT_APPLICABLE" => s.kept = s.commits
  BY <1>1, <1>4, <1>5, WholeKept, LevelTypes
<1> QED
  BY <1>1, <1>2, <1>3, <1>5, <1>6, <1>7

-----------------------------------------------------------------------------
(* What the invariant says of the documents in the store.                  *)
LEMMA RecordedStates ==
    ASSUME TypeOK, StatesProper, NEW n \in DOMAIN states
    PROVE  /\ n \in 1 .. Len(states) /\ Len(states) \in DOMAIN states /\ Started
           /\ states[n] \in State /\ Shaped(states[n]) /\ states[n].state \in StateNames
           /\ Rank(states[n].state) \in 0 .. 5
           /\ Bootstrapped(states[n]) <=> Rank(states[n].state) = 0
           /\ states[n].kept \subseteq docs
<1>1. states \in Seq(State)
  BY DEF TypeOK
<1>2. states[n] \in State
  BY <1>1
<1>3. states[n].state \in StateNames
  BY <1>2 DEF State
<1>4. n \in 1 .. Len(states) /\ Len(states) \in DOMAIN states /\ Started
  BY <1>1 DEF Started
<1> QED
  BY <1>2, <1>3, <1>4, Ranks DEF StatesProper, StateAllowed, Bootstrapped

LEMMA LatestRecorded ==
    ASSUME TypeOK, StatesProper, Started
    PROVE  Len(states) \in DOMAIN states /\ Len(states) \in Nat \ {0}
BY DEF TypeOK, Started

LEMMA GatedDocument ==
    ASSUME TypeOK, StatesProper, StatesClimb, ApprovedLevel # "NOT_APPLICABLE",
           NEW d, DocAllowed(d)
    PROVE  /\ Started /\ Rank(Latest.state) >= 3 /\ d \in Latest.commits
           /\ d.type = "design-approval" => Rank(Latest.state) >= 4
<1>1. PICK n \in DOMAIN states :
         /\ states[n].state = "SYSTEM_APPROVED" /\ d \in states[n].commits
         /\ d.type = "design-approval" =>
               \E m \in DOMAIN states : states[m].state = "FINAL_APPROVAL_PENDING"
  BY DEF DocAllowed
<1>2. /\ Started /\ Len(states) \in DOMAIN states /\ Len(states) \in Nat
      /\ \A m \in DOMAIN states : m \in 1 .. Len(states) /\ Rank(states[m].state) \in 0 .. 5
  BY <1>1, RecordedStates DEF TypeOK
<1>3. \A m \in DOMAIN states : Rank(states[m].state) <= Rank(Latest.state)
  BY <1>2 DEF StatesClimb, Latest
<1>4. Rank(states[n].state) = 3
  BY <1>1 DEF Rank
<1>5. Rank(Latest.state) >= 3
  BY <1>2, <1>3, <1>4 DEF Latest
<1>6. ~Bootstrapped(states[n]) /\ ~Bootstrapped(states[Len(states)])
  BY <1>2, <1>4, <1>5, RecordedStates DEF Latest
<1>7. d \in Latest.commits
  BY <1>1, <1>2, <1>6 DEF StatesClimb, Latest
<1>8. d.type = "design-approval" => Rank(Latest.state) >= 4
  <2>1. ASSUME NEW m \in DOMAIN states, states[m].state = "FINAL_APPROVAL_PENDING"
        PROVE  Rank(Latest.state) >= 4
    <3>1. Rank(states[m].state) = 4
      BY <2>1 DEF Rank
    <3> QED
      BY <1>2, <1>3, <3>1 DEF Latest
  <2> QED
    BY <1>1, <2>1
<1> QED
  BY <1>2, <1>5, <1>7, <1>8

LEMMA CompleteDocs ==
    ASSUME DInv, ApprovedLevel # "NOT_APPLICABLE", "design-approval" \in TypesOf(docs)
    PROVE  docs = Latest.commits
<1> USE DEF DInv
<1>1. PICK d \in docs : d.type = "design-approval"
  BY DEF TypesOf
<1>2. PICK m \in DOMAIN states : states[m].state = "FINAL_APPROVAL_PENDING"
  BY <1>1 DEF DocsGated, DocAllowed
<1>3. \A e \in docs : e \in Latest.commits
  BY GatedDocument DEF DocsGated
<1>4. /\ Shaped(states[m]) /\ states[m] \in State /\ ~Bootstrapped(states[m])
      /\ states[m].kept \subseteq docs /\ class \in Classes
  BY <1>2, RecordedStates DEF Bootstrapped, TypeOK
<1>5. NonFinal(ApprovedLevel) \subseteq TypesOf(states[m].kept)
  BY <1>2, <1>4, GateShape
<1>6. Started /\ Rank(Latest.state) >= 3 /\ Len(states) \in DOMAIN states
  BY <1>1, GatedDocument, RecordedStates DEF DocsGated
<1>7. Latest \in State /\ Shaped(Latest) /\ ~Bootstrapped(Latest)
  BY <1>6, RecordedStates DEF Latest
<1>8. Single(Latest.commits) /\ TypesOf(Latest.commits) = Required(ApprovedLevel)
  BY <1>4, <1>7, FullShape
<1>9. NonFinal(ApprovedLevel) \union {"design-approval"} \subseteq TypesOf(docs)
  BY <1>4, <1>5 DEF TypesOf
<1>10. TypesOf(Latest.commits) \subseteq TypesOf(docs)
  BY <1>4, <1>8, <1>9, ClassLevels, LevelTypes
<1> QED
  BY <1>3, <1>8, <1>10, WholeKept

LEMMA DInvGates == DInv => GateBeforePersist
<1> SUFFICES ASSUME DInv, docs # {} PROVE GateBeforePersist
  BY DEF GateBeforePersist
<1> USE DEF DInv
<1>1. CASE ApprovedLevel = "NOT_APPLICABLE"
  BY <1>1 DEF GateBeforePersist, DocsGated, DocAllowed, TypesOf
<1>2. CASE ApprovedLevel # "NOT_APPLICABLE"
  <2>1. PICK d \in docs : DocAllowed(d)
    BY DEF DocsGated
  <2>2. PICK n \in DOMAIN states : states[n].state = "SYSTEM_APPROVED"
    BY <1>2, <2>1 DEF DocAllowed
  <2>3. Started /\ Rank(Latest.state) >= 3 /\ Len(states) \in DOMAIN states
    BY <1>2, <2>1, GatedDocument, RecordedStates
  <2>4. ~Bootstrapped(states[n]) /\ ~Bootstrapped(states[Len(states)])
    BY <2>2, <2>3, RecordedStates DEF Latest, Bootstrapped
  <2>5. states[n].commits = Latest.commits
    BY <2>2, <2>3, <2>4 DEF StatesClimb, Latest
  <2>6. docs \subseteq states[n].commits
    BY <1>2, <2>5, GatedDocument DEF DocsGated
  <2>7. Genuine(states[n].approvals, ApprovedLevel, states[n].commits)
    BY <2>2, <2>4, RecordedStates, FullShape DEF TypeOK
  <2>8. ASSUME "design-approval" \in TypesOf(docs)
        PROVE  /\ docs = states[n].commits
               /\ \E m \in DOMAIN states : states[m].state = "FINAL_APPROVAL_PENDING"
               /\ \E r \in Signed : r.kind = "FINAL" /\ Bound(r, ApprovedLevel, docs)
    <3>1. PICK e \in docs : e.type = "design-approval"
      BY <2>8 DEF TypesOf
    <3>2. PICK k \in DOMAIN states :
             /\ states[k].state = "SYSTEM_APPROVED"
             /\ \E m \in DOMAIN states : states[m].state = "FINAL_APPROVAL_PENDING"
             /\ \E r \in Signed :
                   r.kind = "FINAL" /\ Bound(r, ApprovedLevel, states[k].commits)
      BY <1>2, <3>1 DEF DocsGated, DocAllowed
    <3>3. ~Bootstrapped(states[k])
      BY <3>2 DEF Bootstrapped
    <3>4. states[k].commits = states[n].commits
      BY <2>2, <2>4, <3>2, <3>3 DEF StatesClimb
    <3>5. docs = states[n].commits
      BY <1>2, <2>5, <2>8, CompleteDocs
    <3> QED
      BY <3>2, <3>4, <3>5
  <2> QED
    BY <1>2, <2>2, <2>6, <2>7, <2>8 DEF GateBeforePersist
<1> QED
  BY <1>1, <1>2

LEMMA DInvReplays == DInv => HistoryReplaysUntilFinal
<1> SUFFICES ASSUME DInv, "design-approval" \notin TypesOf(docs) PROVE Replays(states)
  BY DEF HistoryReplaysUntilFinal, HistoryReplays
<1> USE DEF DInv
<1>1. \A n \in DOMAIN states : SnapshotValid(states[n])
  BY DEF StatesProper, StateAllowed, Shaped
<1>2. states # <<>> => IsRoot(states[1])
  BY LatestRecorded DEF Started, StatesProper, StateAllowed, TypeOK
<1>3. ASSUME NEW n \in 2 .. Len(states) PROVE Follows(states[n], states[n - 1])
  <2>1. n \in DOMAIN states /\ n > 1
    BY DEF TypeOK
  <2>2. Follows(states[n], states[n - 1]) \/ Repeats(states[n], states[n - 1])
    BY <2>1 DEF StatesProper, StateAllowed
  <2>3. "design-approval" \notin TypesOf(states[n].kept)
    BY <2>1 DEF StatesProper, TypesOf
  <2> QED
    BY <2>2, <2>3 DEF Repeats
<1> QED
  BY <1>1, <1>2, <1>3 DEF Replays

LEMMA DInvChain == DInv => FeatureChainReplays
BY DEF DInv, FeatureChainReplays, ChainValid, FeatureProper, FeatureAllowed, TypeOK

LEMMA DInvReady == DInv => ReadyIsEarned
<1> SUFFICES ASSUME DInv, UiReady
             PROVE  /\ HistoryReplays /\ docs = Latest.commits
                    /\ ApprovedLevel # "NOT_APPLICABLE" => KindsOf(Latest.approvals) = KindOrder
  BY DEF ReadyIsEarned
<1> USE DEF DInv
<1>1. PICK n \in DOMAIN states :
         /\ {m \in DOMAIN states : Rank(states[m].state) = 5} = {n}
         /\ StateGraphVerified(states[n])
  BY DEF UiReady
<1>2. Rank(states[n].state) = 5
  BY <1>1
<1>3. n = Len(states) /\ Started /\ Len(states) \in Nat \ {0}
  <2>1. n \in 1 .. Len(states) /\ Len(states) \in DOMAIN states /\ Started
    BY RecordedStates
  <2>2. ~(n < Len(states))
    BY <1>2, <2>1, RecordedStates DEF StatesClimb
  <2> QED
    BY <2>1, <2>2 DEF TypeOK
<1>4. /\ Latest = states[n] /\ Latest \in State /\ Shaped(Latest) /\ ~Bootstrapped(Latest)
      /\ Latest.state \in StateNames /\ class \in Classes
  BY <1>2, <1>3, RecordedStates DEF Latest, TypeOK
<1>5. Latest.state \in {"APPROVED", "NOT_APPLICABLE"}
  BY <1>2, <1>4, Ranks
<1>6. HistoryReplays
  <2>1. \A k \in DOMAIN states : SnapshotValid(states[k])
    BY DEF StatesProper, StateAllowed, Shaped
  <2>2. IsRoot(states[1])
    <3>1. 1 \in DOMAIN states
      BY <1>3 DEF TypeOK
    <3> QED
      BY <3>1 DEF StatesProper, StateAllowed
  <2>3. StateAllowed(n, states[n])
    BY DEF StatesProper
  <2>4. ~Repeats(states[n], states[n - 1])
    BY <1>4, <1>5 DEF Repeats
  <2>5. \A k \in 2 .. Len(states) : Follows(states[k], states[k - 1])
    BY <1>3, <2>3, <2>4 DEF StateAllowed
  <2> QED
    BY <2>1, <2>2, <2>5 DEF HistoryReplays, Replays
<1>7. docs = Latest.commits
  <2>1. Latest.commits \subseteq docs
    BY <1>1, <1>4 DEF StateGraphVerified
  <2>2. CASE ApprovedLevel = "NOT_APPLICABLE"
    <3>1. TypesOf(Latest.commits) = {"design-brief"}
      BY <1>4, <2>2, FullShape, ClassLevels, LevelTypes
    <3>2. TypesOf(docs) \subseteq {"design-brief"}
      BY <2>2 DEF DocsGated, DocAllowed, TypesOf
    <3> QED
      BY <2>1, <3>1, <3>2, WholeKept DEF DocsGated
  <2>3. CASE ApprovedLevel # "NOT_APPLICABLE"
    BY <2>1, <2>3, GatedDocument DEF DocsGated
  <2> QED
    BY <2>2, <2>3
<1>8. ASSUME ApprovedLevel # "NOT_APPLICABLE" PROVE KindsOf(Latest.approvals) = KindOrder
  <2>1. Len(Latest.approvals) = Skip + 3 /\ Canonical(Latest.approvals)
    BY <1>4, <1>5, <1>8, GateShape, FullShape
  <2>2. /\ KindsOf(Latest.approvals) \in Seq(Kinds) /\ KindOrder \in Seq(Kinds)
        /\ Len(KindsOf(Latest.approvals)) = Len(KindOrder)
        /\ IsPrefix(KindsOf(Latest.approvals), KindOrder)
    BY <2>1, KindsFacts, OrderFacts DEF Canonical
  <2> QED
    BY <2>2, PrefixByElements
<1> QED
  BY <1>6, <1>7, <1>8

-----------------------------------------------------------------------------
(* What a design command decides on its snapshot: the names that the       *)
(* definition of DesignDrafts gives to the parts of its result.            *)
Chosen(command, a, g) ==
    /\ command \in {"prepare", "approve"}
    /\ a \in Inputs /\ ApprovalsAllowed(command, a) /\ g \in Graphs
    /\ Replays(states)
    /\ Started => ExactReplay(g, a)
    /\ Preparable(g, Stored(g), a)

SourceOf == IF Started THEN Latest.source ELSE 0
FirstOf(g, a) == Outcome(g, Stored(g), a, SourceOf)
MissingOf(command, g, a) == ToPersist(command, FirstOf(g, a)) \ docs
KeptOf(command, g, a) == Stored(g) \union MissingOf(command, g, a)
LastOf(command, g, a) == Outcome(g, KeptOf(command, g, a), a, SourceOf)

LEMMA LatestFacts ==
    ASSUME DInv, Started
    PROVE  /\ Latest \in State /\ Shaped(Latest) /\ Latest.state \in StateNames
           /\ Latest.kept \subseteq docs /\ Len(states) \in Nat \ {0}
           /\ Canonical(Latest.approvals)
           /\ Bootstrapped(Latest) <=> Rank(Latest.state) = 0
           /\ Bootstrapped(Latest) <=> Latest.state \in {"INITIALIZED", "DOWNGRADE_PENDING"}
<1>1. Len(states) \in DOMAIN states /\ Len(states) \in Nat \ {0} /\ class \in Classes
  BY LatestRecorded DEF DInv, TypeOK
<1>2. /\ Latest \in State /\ Shaped(Latest) /\ Latest.state \in StateNames
      /\ Latest.kept \subseteq docs
      /\ Bootstrapped(Latest) <=> Rank(Latest.state) = 0
  BY <1>1, RecordedStates DEF DInv, Latest
<1>3. Canonical(Latest.approvals)
  BY <1>1, <1>2, BootShape, FullShape, NoApprovals
<1> QED
  BY <1>1, <1>2, <1>3 DEF Bootstrapped

LEMMA InputFacts ==
    ASSUME DInv, NEW command, NEW a, NEW g, Chosen(command, a, g)
    PROVE  /\ a \in Seq(Records) /\ PriorApprovals \in Seq(Records)
           /\ IsPrefix(PriorApprovals, a)
           /\ class \in Classes /\ ApprovedLevel \in Levels /\ SourceOf \in 0 .. 3
           /\ g \in SUBSET Document /\ Single(g) /\ TypesOf(g) = Required(ApprovedLevel)
           /\ Genuine(a, ApprovedLevel, g)
           /\ ApprovedLevel = "NOT_APPLICABLE" => a = <<>>
           /\ NeedsDowngrade(class) => Holds(a, "CRITICAL_DOWNGRADE")
           /\ Holds(a, "FINAL") => NonFinal(ApprovedLevel) \subseteq TypesOf(Stored(g))
<1>1. Started => Latest \in State
  BY LatestFacts
<1>2. PriorApprovals \in Seq(Records)
  BY <1>1 DEF PriorApprovals, State
<1>3. Front(PriorApprovals) \in Seq(Records)
  BY <1>2 DEF Front
<1>4. a \in Seq(Records)
  BY <1>2, <1>3 DEF Chosen, Inputs
<1>5. SourceOf \in 0 .. 3
  BY <1>1 DEF SourceOf, State
<1>6. class \in Classes /\ ApprovedLevel \in Levels
  BY ClassLevels DEF DInv, TypeOK
<1> QED
  BY <1>2, <1>4, <1>5, <1>6, Constants DEF Chosen, ApprovalsAllowed, Preparable, ExactGraph

LEMMA PreparedApprovals ==
    ASSUME DInv, NEW a, NEW g, Chosen("prepare", a, g)
    PROVE  /\ Canonical(a)
           /\ Started => a = Latest.approvals
           /\ ~Started => Len(a) = Skip
<1>1. /\ a \in Seq(Records) /\ PriorApprovals \in Seq(Records) /\ IsPrefix(PriorApprovals, a)
      /\ KindsOf(a) = KindsOf(PriorApprovals) \o Additions("prepare")
  BY InputFacts DEF Chosen, ApprovalsAllowed
<1>2. CASE Started
  <2>1. Additions("prepare") = <<>> /\ PriorApprovals = Latest.approvals
    BY <1>2 DEF Additions, PriorApprovals
  <2> QED
    BY <1>1, <1>2, <2>1, SameKinds, LatestFacts
<1>3. CASE ~Started /\ NeedsDowngrade(class)
  <2>1. Additions("prepare") = <<"CRITICAL_DOWNGRADE">> /\ PriorApprovals = <<>>
    BY <1>3 DEF Additions, PriorApprovals
  <2>2. "CRITICAL_DOWNGRADE" \in Kinds /\ Len(<<>>) = 0 /\ <<>> \in Seq(Records)
    BY DEF Kinds
  <2>3. IsPrefix(<<>>, a) /\ KindsOf(a) = KindsOf(<<>>) \o <<"CRITICAL_DOWNGRADE">>
    BY <1>1, <2>1
  <2>4. a \in Seq(Records)
    BY <1>1
  <2>5. Len(a) = Len(<<>>) + 1 /\ a[Len(a)].kind = "CRITICAL_DOWNGRADE"
    BY <2>2, <2>3, <2>4, OneMoreKind
  <2>6. Len(a) = 1 /\ Skip = 1 /\ a[1].kind = KindOrder[1]
    BY <1>3, <2>2, <2>5, OrderFacts
  <2>7. Len(a) <= Skip + 3 /\ \A i \in 1 .. Len(a) : a[i].kind = KindOrder[i]
    BY <2>6
  <2> QED
    BY <1>3, <2>4, <2>6, <2>7, CanonicalKinds
<1>4. CASE ~Started /\ ~NeedsDowngrade(class)
  <2>1. Additions("prepare") = <<>> /\ PriorApprovals = <<>>
    BY <1>4 DEF Additions, PriorApprovals
  <2>2. a = <<>>
    BY <1>1, <2>1, SameKinds
  <2> QED
    BY <1>4, <2>2, NoApprovals DEF Skip
<1> QED
  BY <1>2, <1>3, <1>4

LEMMA GivenApproval ==
    ASSUME DInv, NEW a, NEW g, Chosen("approve", a, g)
    PROVE  /\ Started /\ Latest.state \in DOMAIN GateKind
           /\ Canonical(a) /\ Len(a) = Len(Latest.approvals) + 1
           /\ a[Len(a)].kind = GateKind[Latest.state]
           /\ ApprovedLevel # "NOT_APPLICABLE"
<1>1. /\ a \in Seq(Records) /\ PriorApprovals \in Seq(Records) /\ IsPrefix(PriorApprovals, a)
      /\ KindsOf(a) = KindsOf(PriorApprovals) \o Additions("approve") /\ AtGate
      /\ class \in Classes
  BY InputFacts DEF Chosen, ApprovalsAllowed
<1>2. /\ Started /\ Latest.state \in DOMAIN GateKind /\ PriorApprovals = Latest.approvals
      /\ Additions("approve") = <<GateKind[Latest.state]>>
  BY <1>1 DEF Additions, PriorApprovals, AtGate
<1>3. /\ Latest \in State /\ Shaped(Latest) /\ Canonical(Latest.approvals)
      /\ Bootstrapped(Latest) <=> Latest.state \in {"INITIALIZED", "DOWNGRADE_PENDING"}
  BY <1>2, LatestFacts
<1>4. GateKind[Latest.state] \in Kinds
  BY <1>2 DEF GateKind, Kinds
<1>5. /\ Len(a) = Len(Latest.approvals) + 1 /\ a[Len(a)].kind = GateKind[Latest.state]
      /\ \A i \in 1 .. Len(Latest.approvals) : a[i].kind = Latest.approvals[i].kind
  <2>1. IsPrefix(Latest.approvals, a) /\ a \in Seq(Records) /\ Latest.approvals \in Seq(Records)
    BY <1>1, <1>2
  <2>2. KindsOf(a) = KindsOf(Latest.approvals) \o <<GateKind[Latest.state]>>
    BY <1>1, <1>2
  <2> QED
    BY <1>4, <2>1, <2>2, OneMoreKind
<1>6. /\ Len(Latest.approvals) \in Nat
      /\ \A i \in 1 .. Len(Latest.approvals) : Latest.approvals[i].kind = KindOrder[i]
  BY <1>3, CanonicalKinds DEF Canonical
<1>7. Latest.state \in {"DOWNGRADE_PENDING", "DIRECTION_PENDING", "SYSTEM_PENDING",
                        "FINAL_APPROVAL_PENDING"}
  BY <1>2 DEF GateKind
<1>8. ApprovedLevel # "NOT_APPLICABLE"
  <2>1. CASE Latest.state = "DOWNGRADE_PENDING"
    BY <1>1, <1>3, <2>1, BootShape, ClassLevels
  <2>2. CASE Latest.state # "DOWNGRADE_PENDING"
    BY <1>1, <1>3, <1>7, <2>2, GateShape
  <2> QED
    BY <2>1, <2>2
<1>9. Len(Latest.approvals) <= Skip + 2 /\ GateKind[Latest.state] = KindOrder[Len(a)]
  <2>1. CASE Latest.state = "DOWNGRADE_PENDING"
    <3>1. Len(Latest.approvals) = 0 /\ NeedsDowngrade(class)
      BY <1>1, <1>3, <2>1, BootShape
    <3> QED
      BY <1>5, <2>1, <3>1, OrderFacts DEF GateKind
  <2>2. CASE Latest.state = "DIRECTION_PENDING"
    <3>1. Len(Latest.approvals) = Skip
      BY <1>1, <1>3, <1>8, <2>2, GateShape
    <3> QED
      BY <1>5, <2>2, <3>1, OrderFacts DEF GateKind
  <2>3. CASE Latest.state = "SYSTEM_PENDING"
    <3>1. Len(Latest.approvals) = Skip + 1
      BY <1>1, <1>3, <1>8, <2>3, GateShape
    <3>2. Len(a) = Skip + 2
      BY <1>5, <3>1, OrderFacts
    <3> QED
      BY <2>3, <3>1, <3>2, OrderFacts DEF GateKind
  <2>4. CASE Latest.state = "FINAL_APPROVAL_PENDING"
    <3>1. Len(Latest.approvals) = Skip + 2
      BY <1>1, <1>3, <1>8, <2>4, GateShape
    <3>2. Len(a) = Skip + 3
      BY <1>5, <3>1, OrderFacts
    <3> QED
      BY <2>4, <3>1, <3>2, OrderFacts DEF GateKind
  <2> QED
    BY <1>7, <2>1, <2>2, <2>3, <2>4
<1>10. Len(a) <= Skip + 3 /\ \A i \in 1 .. Len(a) : a[i].kind = KindOrder[i]
  <2>1. \A i \in 1 .. Len(a) : i \in 1 .. Len(Latest.approvals) \/ i = Len(a)
    BY <1>5, <1>6
  <2> QED
    BY <1>5, <1>6, <1>9, <2>1, OrderFacts
<1> QED
  BY <1>1, <1>2, <1>5, <1>8, <1>10, CanonicalKinds

-----------------------------------------------------------------------------
(* The state that a command decides, and how it follows the latest one.    *)
LEMMA ToPersistFacts ==
    ASSUME NEW command, NEW g, NEW a, ApprovedLevel = "NOT_APPLICABLE" => a = <<>>
    PROVE  LET first == StateOf(ApprovedLevel, a, Stored(g)) IN
           /\ ToPersist(command, FirstOf(g, a)) \subseteq g
           /\ ApprovedLevel = "NOT_APPLICABLE" => ToPersist(command, FirstOf(g, a)) = g
           /\ ApprovedLevel # "NOT_APPLICABLE" =>
                /\ first = "SYSTEM_APPROVED" /\ command # "approve" =>
                      ToPersist(command, FirstOf(g, a)) = OfType(g, NonFinal(ApprovedLevel))
                /\ first = "FINAL_APPROVAL_PENDING" /\ command = "approve" =>
                      ToPersist(command, FirstOf(g, a)) = g
                /\ ~(first = "SYSTEM_APPROVED" /\ command # "approve")
                   /\ ~(first = "FINAL_APPROVAL_PENDING" /\ command = "approve") =>
                      ToPersist(command, FirstOf(g, a)) = {}
<1> DEFINE first == FirstOf(g, a)
<1>1. /\ first.state = StateOf(ApprovedLevel, a, Stored(g)) /\ first.level = ApprovedLevel
      /\ first.commits = g
  BY DEF FirstOf, Outcome
<1> HIDE DEF first
<1>2. CASE ApprovedLevel = "NOT_APPLICABLE"
  <2>1. first.state = "NOT_APPLICABLE"
    BY <1>1, <1>2, NoApprovals DEF StateOf
  <2>2. ToPersist(command, first) = g
    BY <1>1, <1>2, <2>1 DEF ToPersist
  <2> QED
    BY <1>2, <2>2 DEF first
<1>3. CASE ApprovedLevel # "NOT_APPLICABLE"
  <2>1. /\ first.state = "SYSTEM_APPROVED" /\ command # "approve" =>
              ToPersist(command, first) = OfType(g, NonFinal(ApprovedLevel))
        /\ first.state = "FINAL_APPROVAL_PENDING" /\ command = "approve" =>
              ToPersist(command, first) = g
        /\ ~(first.state = "SYSTEM_APPROVED" /\ command # "approve")
           /\ ~(first.state = "FINAL_APPROVAL_PENDING" /\ command = "approve") =>
              ToPersist(command, first) = {}
    BY <1>1, <1>3 DEF ToPersist
  <2>2. OfType(g, NonFinal(ApprovedLevel)) \subseteq g
    BY DEF OfType
  <2> QED
    BY <1>1, <1>3, <2>1, <2>2 DEF first
<1> QED
  BY <1>2, <1>3

LEMMA KeptFacts ==
    ASSUME NEW command, NEW g, NEW a, ApprovedLevel = "NOT_APPLICABLE" => a = <<>>
    PROVE  /\ MissingOf(command, g, a) \subseteq g /\ KeptOf(command, g, a) \subseteq g
           /\ Stored(g) \subseteq KeptOf(command, g, a) /\ Stored(g) = docs \intersect g
           /\ KeptOf(command, g, a) \subseteq docs \union MissingOf(command, g, a)
           /\ ApprovedLevel = "NOT_APPLICABLE" => KeptOf(command, g, a) = g
BY ToPersistFacts DEF MissingOf, KeptOf, Stored

LEMMA EarlyOutcome ==
    ASSUME DInv, NEW command, NEW a, NEW g, Chosen(command, a, g), Canonical(a),
           ApprovedLevel # "NOT_APPLICABLE", docs = {},
           \/ Len(a) <= Skip + 1
           \/ Len(a) = Skip + 2 /\ command = "approve"
    PROVE  /\ MissingOf(command, g, a) = {} /\ KeptOf(command, g, a) = {}
           /\ LET state == LastOf(command, g, a).state IN
              /\ Len(a) <= Skip => state = "DIRECTION_PENDING"
              /\ Len(a) = Skip + 1 => state = "SYSTEM_PENDING"
              /\ Len(a) = Skip + 2 => state = "SYSTEM_APPROVED"
<1>1. Stored(g) = {} /\ TypesOf({}) = {} /\ ApprovedLevel \in Levels
  BY InputFacts DEF Stored, TypesOf
<1>2. ~(NonFinal(ApprovedLevel) \subseteq TypesOf({}))
  BY <1>1, LevelTypes
<1> DEFINE state == StateOf(ApprovedLevel, a, {})
<1>3. /\ state = "DIRECTION_PENDING" <=> Len(a) <= Skip
      /\ state = "SYSTEM_PENDING" <=> Len(a) = Skip + 1
      /\ state = "SYSTEM_APPROVED" <=> Len(a) >= Skip + 2
  BY <1>1, <1>2, StateByLength
<1> HIDE DEF state
<1>4. Skip \in {0, 1} /\ Len(a) \in Nat
  BY OrderFacts, HoldsByLength
<1>5. ToPersist(command, FirstOf(g, a)) = {}
  <2>1. StateOf(ApprovedLevel, a, Stored(g)) = state
    BY <1>1 DEF state
  <2>2. ~(state = "SYSTEM_APPROVED" /\ command # "approve") /\ state # "FINAL_APPROVAL_PENDING"
    BY <1>3, <1>4
  <2> QED
    BY <2>1, <2>2, ToPersistFacts
<1>6. MissingOf(command, g, a) = {} /\ KeptOf(command, g, a) = {}
  BY <1>1, <1>5 DEF MissingOf, KeptOf
<1>7. LastOf(command, g, a).state = state
  BY <1>6 DEF LastOf, Outcome, state
<1> QED
  BY <1>3, <1>4, <1>6, <1>7

LEMMA OutcomeShaped ==
    ASSUME DInv, NEW command, NEW a, NEW g, Chosen(command, a, g), Canonical(a),
           NEW last, last = LastOf(command, g, a),
           last.state \in {"DIRECTION_PENDING", "SYSTEM_PENDING"} => last.kept = {},
           Holds(a, "FINAL") => last.state = "APPROVED"
    PROVE  last \in State /\ Shaped(last) /\ ~Bootstrapped(last)
<1>1. /\ a \in Seq(Records) /\ ApprovedLevel \in Levels /\ SourceOf \in 0 .. 3
      /\ g \in SUBSET Document /\ Single(g) /\ TypesOf(g) = Required(ApprovedLevel)
      /\ Genuine(a, ApprovedLevel, g) /\ class \in Classes
      /\ ApprovedLevel = "NOT_APPLICABLE" => a = <<>>
      /\ NeedsDowngrade(class) => Holds(a, "CRITICAL_DOWNGRADE")
  BY InputFacts
<1>2. /\ last.state = StateOf(ApprovedLevel, a, last.kept)
      /\ last.level = ApprovedLevel /\ last.pending = FALSE /\ last.approvals = a
      /\ last.commits = g /\ last.kept = KeptOf(command, g, a)
  BY DEF LastOf, Outcome
<1>3. last.state \in StateNames \ {"INITIALIZED", "DOWNGRADE_PENDING"}
  BY <1>1, <1>2, StateByLength
<1>4. last.kept \subseteq g /\ (ApprovedLevel = "NOT_APPLICABLE" => last.kept = g)
  BY <1>1, <1>2, KeptFacts
<1>5. last \in State
  <2>1. last = [state |-> last.state, level |-> ApprovedLevel, pending |-> FALSE,
                approvals |-> a, commits |-> g, kept |-> last.kept, source |-> SourceOf]
    BY <1>2 DEF LastOf, Outcome
  <2>2. /\ last.state \in StateNames /\ ApprovedLevel \in Levels /\ a \in Seq(Records)
        /\ g \in SUBSET Document /\ last.kept \in SUBSET Document /\ SourceOf \in 0 .. 3
    BY <1>1, <1>3, <1>4
  <2>3. ASSUME NEW state \in StateNames, NEW kept \in SUBSET Document
        PROVE  [state |-> state, level |-> ApprovedLevel, pending |-> FALSE, approvals |-> a,
                commits |-> g, kept |-> kept, source |-> SourceOf] \in State
    BY <2>2 DEF State
  <2> QED
    BY <2>1, <2>2, <2>3, Zenon
<1>6. ~Bootstrapped(last)
  BY <1>3 DEF Bootstrapped
<1>7. LevelValid(last)
  <2>1. \A i \in DOMAIN a : a[i] \in Signed
    BY <1>1 DEF Genuine
  <2>2. last.pending = (NeedsDowngrade(class) /\ ~Holds(a, "CRITICAL_DOWNGRADE"))
    BY <1>1, <1>2
  <2> QED
    BY <1>1, <1>2, <1>4, <1>6, <2>1, <2>2 DEF LevelValid
<1>8. ProgressValid(last)
  BY <1>1, <1>2 DEF ProgressValid, Canonical
<1> QED
  BY <1>2, <1>3, <1>4, <1>5, <1>6, <1>7, <1>8 DEF Shaped, SnapshotValid

LEMMA OneRankHigher ==
    ASSUME DInv, NEW command, NEW a, NEW g, Chosen(command, a, g), Started,
           NEW last, last = LastOf(command, g, a),
           Rank(last.state) = Rank(Latest.state) + 1
    PROVE  Follows(last, Latest)
<1>1. /\ class \in Classes /\ IsPrefix(Latest.approvals, a)
      /\ NeedsDowngrade(class) => Holds(a, "CRITICAL_DOWNGRADE")
  BY InputFacts DEF PriorApprovals
<1>2. /\ last.level = ApprovedLevel /\ last.pending = FALSE /\ last.approvals = a
      /\ last.commits = g /\ last.source = Latest.source
  BY DEF LastOf, Outcome, SourceOf
<1>3. /\ Latest \in State /\ Shaped(Latest)
      /\ Bootstrapped(Latest) <=> Latest.state \in {"INITIALIZED", "DOWNGRADE_PENDING"}
  BY LatestFacts
<1>4. \/ last.pending = Latest.pending /\ last.level = Latest.level
      \/ /\ Latest.state = "DOWNGRADE_PENDING"
         /\ Latest.pending /\ ~last.pending /\ last.level = class.requested
  <2>1. CASE ~Bootstrapped(Latest)
    BY <1>1, <1>2, <1>3, <2>1, FullShape
  <2>2. CASE Bootstrapped(Latest) /\ NeedsDowngrade(class)
    BY <1>1, <1>2, <1>3, <2>2, BootShape DEF ApprovedLevel
  <2>3. CASE Bootstrapped(Latest) /\ ~NeedsDowngrade(class)
    <3>1. Latest.pending = FALSE /\ Latest.level = ApprovedLevel
      BY <1>1, <1>3, <2>3, BootShape DEF ApprovedLevel, State
    <3> QED
      BY <1>2, <3>1
  <2> QED
    BY <2>1, <2>2, <2>3
<1>5. CASE Latest.state = "DOWNGRADE_PENDING"
  BY <1>1, <1>2, <1>4, <1>5 DEF Follows
<1>6. CASE Latest.state = "INITIALIZED"
  BY <1>1, <1>2, <1>4, <1>6 DEF Follows, Chosen, ExactReplay
<1>7. CASE Latest.state \notin {"DOWNGRADE_PENDING", "INITIALIZED"}
  BY <1>1, <1>2, <1>4, <1>7 DEF Follows, Chosen, ExactReplay
<1> QED
  BY <1>5, <1>6, <1>7

-----------------------------------------------------------------------------
(* Every decision leads to a state that may be recorded next, or to the    *)
(* latest one again, and to documents that may be stored.                  *)
Decided(command, g, a) ==
    /\ LastOf(command, g, a) \in State
    /\ \/ Started /\ Latest = LastOf(command, g, a)
       \/ StateAllowed(Len(states) + 1, LastOf(command, g, a))
    /\ \A d \in MissingOf(command, g, a) : DocAllowed(d)

LEMMA LastKept ==
    ASSUME NEW command, NEW g, NEW a
    PROVE  /\ LastOf(command, g, a).kept = KeptOf(command, g, a)
           /\ LastOf(command, g, a).state = StateOf(ApprovedLevel, a, KeptOf(command, g, a))
BY DEF LastOf, Outcome

LEMMA AllowedNext ==
    ASSUME DInv, NEW command, NEW a, NEW g, Chosen(command, a, g), Canonical(a),
           NEW last, last = LastOf(command, g, a),
           last.state \in {"DIRECTION_PENDING", "SYSTEM_PENDING"} => last.kept = {},
           Holds(a, "FINAL") => last.state = "APPROVED",
           ~Started => IsRoot(last),
           Started => Rank(last.state) = Rank(Latest.state) + 1 \/ Repeats(last, Latest)
    PROVE  last \in State /\ StateAllowed(Len(states) + 1, last)
<1>1. last \in State /\ Shaped(last)
  BY OutcomeShaped
<1>2. Len(states) \in Nat /\ (~Started <=> Len(states) = 0)
  BY DEF DInv, TypeOK, Started
<1>3. Started => Follows(last, Latest) \/ Repeats(last, Latest)
  BY OneRankHigher
<1>4. \A k \in 2 .. Len(states) : Follows(states[k], states[k - 1])
  BY DEF Chosen, Replays
<1>5. Len(states) + 1 - 1 = Len(states)
  BY <1>2
<1> QED
  BY <1>1, <1>2, <1>3, <1>4, <1>5 DEF StateAllowed, Latest

LEMMA SameRow ==
    ASSUME DInv, NEW command, NEW a, NEW g, Started, ~Bootstrapped(Latest),
           a = Latest.approvals, g = Latest.commits, KeptOf(command, g, a) = Latest.kept
    PROVE  Latest = LastOf(command, g, a)
<1>1. Latest \in State /\ Shaped(Latest) /\ class \in Classes
  BY LatestFacts DEF DInv, TypeOK
<1>2. /\ Latest.level = ApprovedLevel /\ Latest.pending = FALSE
      /\ Latest.state = StateOf(ApprovedLevel, a, Latest.kept)
  BY <1>1, FullShape
<1>3. Latest = [state |-> Latest.state, level |-> Latest.level, pending |-> Latest.pending,
                approvals |-> Latest.approvals, commits |-> Latest.commits,
                kept |-> Latest.kept, source |-> Latest.source]
  BY <1>1 DEF State
<1>4. LastOf(command, g, a) =
        [state |-> StateOf(ApprovedLevel, a, Latest.kept), level |-> ApprovedLevel,
         pending |-> FALSE, approvals |-> a, commits |-> g, kept |-> Latest.kept,
         source |-> Latest.source]
  BY DEF LastOf, Outcome, SourceOf
<1> HIDE DEF Latest
<1> QED
  BY <1>2, <1>3, <1>4

LEMMA SameCommits ==
    ASSUME DInv, NEW command, NEW a, NEW g, Chosen(command, a, g), Started, ~Bootstrapped(Latest)
    PROVE  g = Latest.commits
BY DEF Chosen, ExactReplay, Bootstrapped

LEMMA NoDocsYet ==
    ASSUME DInv, ApprovedLevel # "NOT_APPLICABLE", Started => Rank(Latest.state) \in 0 .. 2
    PROVE  docs = {}
BY GatedDocument DEF DInv, DocsGated

LEMMA FirstDecision ==
    ASSUME DInv, NEW command, NEW a, NEW g, Chosen(command, a, g), ~Started
    PROVE  Decided(command, g, a)
<1>1. command = "prepare"
  BY GivenApproval DEF Chosen
<1>2. Canonical(a) /\ Len(a) = Skip /\ Skip \in {0, 1}
  BY <1>1, PreparedApprovals, OrderFacts
<1>3. ApprovedLevel \in Levels /\ (ApprovedLevel = "NOT_APPLICABLE" => a = <<>>)
      /\ TypesOf(g) = Required(ApprovedLevel)
  BY InputFacts
<1>4. ~Holds(a, "FINAL")
  BY <1>2, HoldsByLength
<1> DEFINE last == LastOf(command, g, a)
<1>5. CASE ApprovedLevel # "NOT_APPLICABLE"
  <2>1. docs = {}
    BY <1>5, NoDocsYet
  <2>2. last.state = "DIRECTION_PENDING" /\ last.kept = {} /\ MissingOf(command, g, a) = {}
    BY <1>2, <1>5, <2>1, EarlyOutcome, LastKept
  <2>3. IsRoot(last)
    BY <2>2 DEF IsRoot
  <2> HIDE DEF last
  <2>4. last \in State /\ StateAllowed(Len(states) + 1, last)
    BY <1>2, <1>4, <2>2, <2>3, AllowedNext DEF last
  <2> QED
    BY <2>2, <2>4 DEF Decided, last
<1>6. CASE ApprovedLevel = "NOT_APPLICABLE"
  <2>1. last.state = "NOT_APPLICABLE"
    BY <1>2, <1>3, <1>6, StateByLength, LastKept
  <2>2. IsRoot(last)
    BY <2>1 DEF IsRoot
  <2> HIDE DEF last
  <2>3. last \in State /\ StateAllowed(Len(states) + 1, last)
    BY <1>2, <1>4, <2>1, <2>2, AllowedNext DEF last
  <2>4. \A d \in MissingOf(command, g, a) : d \in g
    BY <1>3, KeptFacts
  <2>5. \A d \in g : d.type = "design-brief"
    <3>1. TypesOf(g) = {"design-brief"}
      BY <1>3, <1>6, LevelTypes
    <3> QED
      BY <3>1 DEF TypesOf
  <2> QED
    BY <1>6, <2>3, <2>4, <2>5 DEF Decided, DocAllowed, last
<1> QED
  BY <1>5, <1>6

LEMMA EarlyDecision ==
    ASSUME DInv, NEW command, NEW a, NEW g, Chosen(command, a, g), Started,
           Rank(Latest.state) \in 0 .. 2
    PROVE  Decided(command, g, a)
<1>1. /\ Latest \in State /\ Shaped(Latest) /\ Latest.state \in StateNames
      /\ Bootstrapped(Latest) <=> Latest.state \in {"INITIALIZED", "DOWNGRADE_PENDING"}
      /\ class \in Classes /\ command \in {"prepare", "approve"}
  BY LatestFacts, InputFacts DEF Chosen
<1>2. Latest.state \in {"INITIALIZED", "DOWNGRADE_PENDING", "DIRECTION_PENDING", "SYSTEM_PENDING"}
  BY <1>1, Ranks
<1>3. Canonical(a) /\ Len(a) \in Nat /\ Skip \in {0, 1}
  BY <1>1, PreparedApprovals, GivenApproval, HoldsByLength, OrderFacts
<1>4. ApprovedLevel # "NOT_APPLICABLE"
  <2>1. CASE Bootstrapped(Latest)
    BY <1>1, <2>1, BootShape, ClassLevels
  <2>2. CASE ~Bootstrapped(Latest)
    BY <1>1, <1>2, <2>2, GateShape
  <2> QED
    BY <2>1, <2>2
<1>5. docs = {}
  BY <1>4, NoDocsYet
<1> DEFINE last == LastOf(command, g, a)
<1>6. ASSUME \/ Len(a) <= Skip + 1
             \/ Len(a) = Skip + 2 /\ command = "approve"
      PROVE  /\ last.kept = {} /\ MissingOf(command, g, a) = {} /\ KeptOf(command, g, a) = {}
             /\ Len(a) <= Skip => last.state = "DIRECTION_PENDING"
             /\ Len(a) = Skip + 1 => last.state = "SYSTEM_PENDING"
             /\ Len(a) = Skip + 2 => last.state = "SYSTEM_APPROVED"
             /\ ~Holds(a, "FINAL")
  BY <1>3, <1>4, <1>5, <1>6, EarlyOutcome, LastKept, HoldsByLength
<1> HIDE DEF last
<1>7. ASSUME \/ Len(a) <= Skip + 1
             \/ Len(a) = Skip + 2 /\ command = "approve",
             Rank(last.state) = Rank(Latest.state) + 1
      PROVE  Decided(command, g, a)
  <2>1. last \in State /\ StateAllowed(Len(states) + 1, last)
    BY <1>3, <1>6, <1>7, AllowedNext DEF last
  <2> QED
    BY <1>6, <1>7, <2>1 DEF Decided, last
<1>8. CASE Latest.state = "INITIALIZED"
  <2>1. command = "prepare"
    BY <1>1, <1>8, GivenApproval DEF GateKind
  <2>2. Len(a) = 0 /\ Skip = 0
    BY <1>1, <1>8, <2>1, BootShape, PreparedApprovals DEF Skip
  <2>3. last.state = "DIRECTION_PENDING"
    BY <1>6, <2>2
  <2> QED
    BY <1>7, <1>8, <2>2, <2>3 DEF Rank
<1>9. CASE Latest.state = "DOWNGRADE_PENDING"
  <2>1. Latest.approvals = <<>> /\ NeedsDowngrade(class)
    BY <1>1, <1>9, BootShape
  <2>2. command = "approve"
    BY <1>1, <2>1, PreparedApprovals, InputFacts, NoApprovals
  <2>3. Len(a) = 1 /\ Skip = 1
    BY <2>1, <2>2, GivenApproval DEF Skip
  <2>4. last.state = "DIRECTION_PENDING"
    BY <1>6, <2>3
  <2> QED
    BY <1>7, <1>9, <2>3, <2>4 DEF Rank
<1>10. CASE Latest.state \in {"DIRECTION_PENDING", "SYSTEM_PENDING"} /\ command = "prepare"
  <2>1. a = Latest.approvals /\ ~Bootstrapped(Latest) /\ g = Latest.commits
    BY <1>1, <1>10, PreparedApprovals, SameCommits
  <2>2. Len(a) <= Skip + 1 /\ Latest.kept = {}
    <3>1. Latest.kept = {}
      BY <1>1, <1>10, <2>1, FullShape
    <3>2. Len(Latest.approvals) = Skip \/ Len(Latest.approvals) = Skip + 1
      BY <1>1, <1>4, <1>10, <2>1, GateShape
    <3> QED
      BY <1>3, <2>1, <3>1, <3>2
  <2>3. KeptOf(command, g, a) = Latest.kept /\ MissingOf(command, g, a) = {}
    BY <1>6, <2>2
  <2>4. Latest = last
    BY <2>1, <2>3, SameRow DEF last
  <2> QED
    BY <1>1, <2>3, <2>4 DEF Decided, last
<1>11. CASE Latest.state = "DIRECTION_PENDING" /\ command = "approve"
  <2>1. Len(a) = Skip + 1
    BY <1>1, <1>4, <1>11, GivenApproval, GateShape
  <2>2. last.state = "SYSTEM_PENDING"
    BY <1>6, <2>1
  <2> QED
    BY <1>3, <1>7, <1>11, <2>1, <2>2 DEF Rank
<1>12. CASE Latest.state = "SYSTEM_PENDING" /\ command = "approve"
  <2>1. Len(a) = Skip + 2
    BY <1>1, <1>3, <1>4, <1>12, GivenApproval, GateShape
  <2>2. last.state = "SYSTEM_APPROVED"
    BY <1>6, <1>12, <2>1
  <2> QED
    BY <1>3, <1>7, <1>12, <2>1, <2>2 DEF Rank
<1> QED
  BY <1>1, <1>2, <1>8, <1>9, <1>10, <1>11, <1>12

-----------------------------------------------------------------------------
(* With the system approved, the documents but the final approval are      *)
(* persisted, and the next state knows them.                               *)
LEMMA SystemDecision ==
    ASSUME DInv, NEW command, NEW a, NEW g, Chosen(command, a, g), Started,
           Latest.state = "SYSTEM_APPROVED"
    PROVE  Decided(command, g, a)
<1>1. /\ Latest \in State /\ Shaped(Latest) /\ ~Bootstrapped(Latest) /\ class \in Classes
      /\ Len(states) \in Nat \ {0}
  BY LatestFacts, InputFacts DEF Bootstrapped
<1>2. command = "prepare"
  BY GivenApproval DEF Chosen, GateKind
<1>3. Canonical(a) /\ a = Latest.approvals /\ g = Latest.commits
  BY <1>1, <1>2, PreparedApprovals, SameCommits
<1>4. ApprovedLevel # "NOT_APPLICABLE" /\ ApprovedLevel \in Levels
  BY <1>1, GateShape, InputFacts
<1>5. Len(a) = Skip + 2 /\ ~Holds(a, "FINAL") /\ Skip \in {0, 1}
  BY <1>1, <1>3, <1>4, GateShape, HoldsByLength, OrderFacts
<1> DEFINE last == LastOf(command, g, a)
           kept == KeptOf(command, g, a)
           first == StateOf(ApprovedLevel, a, Stored(g))
           missing == MissingOf(command, g, a)
<1>6. /\ first = "SYSTEM_APPROVED" <=> ~(NonFinal(ApprovedLevel) \subseteq TypesOf(Stored(g)))
      /\ first \in {"SYSTEM_APPROVED", "FINAL_APPROVAL_PENDING"}
  BY <1>3, <1>4, <1>5, StateByLength
<1>7. NonFinal(ApprovedLevel) \subseteq TypesOf(kept)
  <2>1. CASE first = "SYSTEM_APPROVED"
    <3>1. OfType(g, NonFinal(ApprovedLevel)) \subseteq kept
      BY <1>2, <1>4, <2>1, ToPersistFacts DEF KeptOf, MissingOf, Stored
    <3>2. TypesOf(g) = Required(ApprovedLevel)
      BY InputFacts
    <3>3. NonFinal(ApprovedLevel) \subseteq TypesOf(g)
      BY <1>4, <3>2, LevelTypes
    <3> QED
      BY <3>1, <3>3 DEF OfType, TypesOf
  <2>2. CASE first # "SYSTEM_APPROVED"
    BY <1>4, <1>6, <2>2, KeptFacts DEF TypesOf
  <2> QED
    BY <2>1, <2>2
<1>8. last.state = "FINAL_APPROVAL_PENDING"
  <2>1. last.state = StateOf(ApprovedLevel, a, kept)
    BY LastKept
  <2> QED
    BY <1>3, <1>4, <1>5, <1>7, <2>1, StateByLength
<1>9. ASSUME NEW d \in missing PROVE DocAllowed(d)
  <2>1. d \in g
    BY <1>4, KeptFacts
  <2>2. d.type # "design-approval"
    <3>1. d \in ToPersist(command, FirstOf(g, a))
      BY DEF MissingOf
    <3>2. d \in OfType(g, NonFinal(ApprovedLevel))
      BY <1>2, <1>4, <1>6, <3>1, ToPersistFacts
    <3> QED
      BY <1>4, <3>2, LevelTypes DEF OfType
  <2>3. Len(states) \in DOMAIN states
    BY LatestRecorded DEF DInv
  <2> QED
    BY <1>3, <1>4, <2>1, <2>2, <2>3 DEF DocAllowed, Latest
<1>10. Rank(last.state) = Rank(Latest.state) + 1
  BY <1>8 DEF Rank
<1> HIDE DEF last, kept, first, missing
<1>11. last \in State /\ StateAllowed(Len(states) + 1, last)
  BY <1>3, <1>5, <1>8, <1>10, AllowedNext DEF last
<1> QED
  BY <1>9, <1>11 DEF Decided, last, missing

(* A design that waits for its final approval: a preparation may only      *)
(* record it once more, an approval persists the rest and completes it.    *)
LEMMA FinalPrepared ==
    ASSUME DInv, NEW a, NEW g, Chosen("prepare", a, g), Started,
           Latest.state = "FINAL_APPROVAL_PENDING"
    PROVE  Decided("prepare", g, a)
<1>1. /\ Latest \in State /\ Shaped(Latest) /\ ~Bootstrapped(Latest) /\ class \in Classes
      /\ Latest.kept \subseteq docs
  BY LatestFacts, InputFacts DEF Bootstrapped
<1>2. Canonical(a) /\ a = Latest.approvals /\ g = Latest.commits
  BY <1>1, PreparedApprovals, SameCommits
<1>3. /\ ApprovedLevel # "NOT_APPLICABLE" /\ ApprovedLevel \in Levels
      /\ Single(g) /\ TypesOf(g) = Required(ApprovedLevel)
  BY <1>1, GateShape, InputFacts
<1>4. /\ Len(a) = Skip + 2 /\ ~Holds(a, "FINAL") /\ Skip \in {0, 1}
      /\ NonFinal(ApprovedLevel) \subseteq TypesOf(Latest.kept)
  BY <1>1, <1>2, <1>3, GateShape, HoldsByLength, OrderFacts
<1>5. Latest.kept \subseteq Stored(g)
  BY <1>1, <1>2, FullShape DEF Stored
<1>6. NonFinal(ApprovedLevel) \subseteq TypesOf(Stored(g))
  BY <1>4, <1>5 DEF TypesOf
<1>7. StateOf(ApprovedLevel, a, Stored(g)) = "FINAL_APPROVAL_PENDING"
  BY <1>2, <1>3, <1>4, <1>6, StateByLength
<1>8. MissingOf("prepare", g, a) = {} /\ KeptOf("prepare", g, a) = Stored(g)
  BY <1>3, <1>7, ToPersistFacts DEF MissingOf, KeptOf
<1> DEFINE last == LastOf("prepare", g, a)
<1>9. last.kept = Stored(g) /\ last.state = "FINAL_APPROVAL_PENDING"
  BY <1>7, <1>8, LastKept
<1>10. CASE "design-approval" \in TypesOf(Stored(g))
  <2>1. /\ last.level = ApprovedLevel /\ last.pending = FALSE /\ last.approvals = a
        /\ last.commits = g
    BY DEF LastOf, Outcome
  <2>2. Latest.level = ApprovedLevel /\ Latest.pending = FALSE
    BY <1>1, FullShape
  <2> HIDE DEF last
  <2>3. Repeats(last, Latest)
    BY <1>2, <1>9, <1>10, <2>1, <2>2 DEF Repeats
  <2>4. last \in State /\ StateAllowed(Len(states) + 1, last)
    BY <1>2, <1>4, <1>9, <2>3, AllowedNext DEF last
  <2> QED
    BY <1>8, <2>4 DEF Decided, last
<1>11. CASE "design-approval" \notin TypesOf(Stored(g))
  <2>1. TypesOf(Stored(g)) \subseteq TypesOf(Latest.kept)
    <3>1. TypesOf(Stored(g)) \subseteq Required(ApprovedLevel)
      BY <1>3 DEF Stored, TypesOf
    <3> QED
      BY <1>3, <1>4, <1>11, <3>1, LevelTypes
  <2>2. Single(Stored(g))
    BY <1>3 DEF Stored, Single
  <2>3. Latest.kept = Stored(g)
    BY <1>5, <2>1, <2>2, WholeKept
  <2>4. Latest = last
    BY <1>1, <1>2, <1>8, <2>3, SameRow
  <2> HIDE DEF last
  <2> QED
    BY <1>1, <1>8, <2>4 DEF Decided, last
<1> QED
  BY <1>10, <1>11

LEMMA FinalApproved ==
    ASSUME DInv, NEW a, NEW g, Chosen("approve", a, g), Started,
           Latest.state = "FINAL_APPROVAL_PENDING"
    PROVE  Decided("approve", g, a)
<1>1. /\ Latest \in State /\ Shaped(Latest) /\ ~Bootstrapped(Latest) /\ class \in Classes
      /\ Latest.kept \subseteq docs /\ Len(states) \in Nat \ {0}
  BY LatestFacts, InputFacts DEF Bootstrapped
<1>2. /\ Canonical(a) /\ g = Latest.commits /\ Len(a) = Len(Latest.approvals) + 1
      /\ a[Len(a)].kind = "FINAL" /\ ApprovedLevel # "NOT_APPLICABLE"
  BY <1>1, GivenApproval, SameCommits DEF GateKind
<1>3. /\ ApprovedLevel \in Levels /\ Single(g) /\ TypesOf(g) = Required(ApprovedLevel)
      /\ Genuine(a, ApprovedLevel, g) /\ a \in Seq(Records)
  BY InputFacts
<1>4. /\ Len(a) = Skip + 3 /\ Skip \in {0, 1}
      /\ NonFinal(ApprovedLevel) \subseteq TypesOf(Latest.kept)
  BY <1>1, <1>2, GateShape, OrderFacts
<1>5. Latest.kept \subseteq Stored(g)
  BY <1>1, <1>2, FullShape DEF Stored
<1>6. NonFinal(ApprovedLevel) \subseteq TypesOf(Stored(g))
  BY <1>4, <1>5 DEF TypesOf
<1> DEFINE last == LastOf("approve", g, a)
           kept == KeptOf("approve", g, a)
           first == StateOf(ApprovedLevel, a, Stored(g))
           missing == MissingOf("approve", g, a)
<1>7. /\ "design-approval" \in TypesOf(Stored(g)) => first = "APPROVED"
      /\ "design-approval" \notin TypesOf(Stored(g)) => first = "FINAL_APPROVAL_PENDING"
  BY <1>2, <1>3, <1>4, <1>6, StateByLength
<1>8. kept = g
  <2>1. kept \subseteq g /\ Stored(g) \subseteq kept
    BY <1>2, KeptFacts
  <2>2. CASE "design-approval" \in TypesOf(Stored(g))
    <3>1. Required(ApprovedLevel) \subseteq TypesOf(Stored(g))
      BY <1>3, <1>6, <2>2, LevelTypes
    <3>2. TypesOf(g) \subseteq TypesOf(kept)
      BY <1>3, <2>1, <3>1 DEF TypesOf
    <3> QED
      BY <1>3, <2>1, <3>2, WholeKept
  <2>3. CASE "design-approval" \notin TypesOf(Stored(g))
    <3>1. missing = g \ docs
      BY <1>2, <1>7, <2>3, ToPersistFacts DEF MissingOf
    <3> QED
      BY <3>1 DEF KeptOf, Stored
  <2> QED
    BY <2>2, <2>3
<1>9. last.state = "APPROVED"
  <2>1. last.state = StateOf(ApprovedLevel, a, g)
    BY <1>8, LastKept
  <2>2. NonFinal(ApprovedLevel) \subseteq TypesOf(g) /\ "design-approval" \in TypesOf(g)
    BY <1>2, <1>3, LevelTypes
  <2> QED
    BY <1>2, <1>3, <1>4, <2>1, <2>2, StateByLength
<1>10. Rank(last.state) = Rank(Latest.state) + 1
  BY <1>9 DEF Rank
<1>11. Len(states) \in DOMAIN states
  BY LatestRecorded DEF DInv
<1>12. PICK n \in DOMAIN states : states[n].state = "SYSTEM_APPROVED" /\ states[n].commits = g
  <2>1. /\ \A k \in 2 .. Len(states) : Follows(states[k], states[k - 1])
        /\ IsRoot(states[1])
    BY <1>1 DEF Chosen, Replays, Started
  <2>2. Len(states) # 1
    BY <2>1 DEF IsRoot, Latest
  <2>3. Len(states) \in 2 .. Len(states) /\ Len(states) - 1 \in 1 .. Len(states)
    <3>1. ASSUME NEW n \in Nat \ {0}, n # 1 PROVE n \in 2 .. n /\ n - 1 \in 1 .. n
      BY <3>1
    <3> QED
      BY <1>1, <2>2, <3>1, Zenon
  <2>4. Follows(Latest, states[Len(states) - 1])
    BY <2>1, <2>3 DEF Latest
  <2>5. Len(states) - 1 \in DOMAIN states
    BY <2>3 DEF DInv, TypeOK
  <2>6. /\ states[Len(states) - 1].state \in StateNames
        /\ Rank(states[Len(states) - 1].state) \in 0 .. 5
    BY <2>5, RecordedStates DEF DInv
  <2>7. Rank(Latest.state) = 4
    BY DEF Rank
  <2>8. Rank(states[Len(states) - 1].state) = 3
    BY <2>4, <2>6, <2>7 DEF Follows
  <2>9. states[Len(states) - 1].state = "SYSTEM_APPROVED"
    BY <2>6, <2>8, Ranks
  <2>10. states[Len(states) - 1].commits = Latest.commits
    BY <2>4, <2>9 DEF Follows
  <2> QED
    BY <1>2, <2>5, <2>9, <2>10
<1>13. ASSUME NEW d \in missing PROVE DocAllowed(d)
  <2>1. d \in g
    BY <1>2, KeptFacts
  <2>2. a[Len(a)] \in Signed /\ Bound(a[Len(a)], ApprovedLevel, g)
    BY <1>3, <1>4 DEF Genuine
  <2> QED
    BY <1>2, <1>11, <1>12, <2>1, <2>2 DEF DocAllowed, Latest
<1> HIDE DEF last, kept, first, missing
<1>14. last \in State /\ StateAllowed(Len(states) + 1, last)
  BY <1>2, <1>9, <1>10, AllowedNext DEF last
<1> QED
  BY <1>13, <1>14 DEF Decided, last, missing

LEMMA EndDecision ==
    ASSUME DInv, NEW command, NEW a, NEW g, Chosen(command, a, g), Started,
           Latest.state \in {"APPROVED", "NOT_APPLICABLE"}
    PROVE  Decided(command, g, a)
<1>1. /\ Latest \in State /\ Shaped(Latest) /\ ~Bootstrapped(Latest) /\ class \in Classes
      /\ Latest.kept \subseteq docs
  BY LatestFacts, InputFacts DEF Bootstrapped
<1>2. command = "prepare"
  BY GivenApproval DEF Chosen, GateKind
<1>3. Canonical(a) /\ a = Latest.approvals /\ g = Latest.commits
  BY <1>1, <1>2, PreparedApprovals, SameCommits
<1>4. Latest.kept = g
  BY <1>1, <1>3, GateShape, FullShape
<1>5. Stored(g) = g
  BY <1>1, <1>4 DEF Stored
<1>6. ApprovedLevel = "NOT_APPLICABLE" => a = <<>>
  BY InputFacts
<1>7. KeptOf(command, g, a) = g /\ MissingOf(command, g, a) = {}
  <2>1. g \subseteq docs
    BY <1>1, <1>4
  <2> QED
    BY <1>5, <1>6, <2>1, KeptFacts DEF MissingOf, KeptOf
<1>8. Latest = LastOf(command, g, a)
  BY <1>1, <1>3, <1>4, <1>7, SameRow
<1> QED
  BY <1>1, <1>7, <1>8 DEF Decided

LEMMA EveryDecision ==
    ASSUME DInv, NEW command, NEW a, NEW g, Chosen(command, a, g)
    PROVE  Decided(command, g, a)
<1>1. CASE ~Started
  BY <1>1, FirstDecision
<1>2. CASE Started
  <2>1. Latest.state \in StateNames /\ command \in {"prepare", "approve"}
    BY <1>2, LatestFacts DEF Chosen
  <2>2. \/ Rank(Latest.state) \in 0 .. 2 \/ Latest.state = "SYSTEM_APPROVED"
        \/ Latest.state = "FINAL_APPROVAL_PENDING"
        \/ Latest.state \in {"APPROVED", "NOT_APPLICABLE"}
    BY <2>1 DEF StateNames, Rank
  <2> QED
    BY <1>2, <2>1, <2>2, EarlyDecision, SystemDecision, FinalPrepared, FinalApproved, EndDecision
<1> QED
  BY <1>1, <1>2

-----------------------------------------------------------------------------
(* Queues of drafts.                                                       *)
LEMMA QueueConcat ==
    ASSUME NEW p \in Seq(Draft), NEW q \in Seq(Draft),
           \A i \in 1 .. Len(p) : DraftAllowed(p[i]) /\ p[i].to # "states",
           \A i \in 1 .. Len(q) :
              /\ DraftAllowed(q[i])
              /\ q[i].to = "states" =>
                    /\ i = Len(q)
                    /\ \A d \in q[i].row.kept :
                          \/ d \in docs
                          \/ \E j \in 1 .. Len(p) : p[j].to = "docs" /\ p[j].row = d
                          \/ \E j \in 1 .. Len(q) : q[j].to = "docs" /\ q[j].row = d
    PROVE  p \o q \in Seq(Draft) /\ Queued(p \o q)
<1> DEFINE r == p \o q
<1>1. /\ r \in Seq(Draft) /\ Len(r) = Len(p) + Len(q)
      /\ \A i \in 1 .. Len(p) : r[i] = p[i]
      /\ \A i \in 1 .. Len(q) : r[Len(p) + i] = q[i]
  BY ConcatElements
<1>2. Len(p) \in Nat /\ Len(q) \in Nat /\ DOMAIN r = 1 .. Len(p) + Len(q)
  BY <1>1
<1> HIDE DEF r
<1>3. \A i \in 1 .. Len(p) : i \in DOMAIN r
  BY <1>2
<1>4. \A i \in 1 .. Len(q) : Len(p) + i \in DOMAIN r
  BY <1>2
<1>5. ASSUME NEW i \in DOMAIN r
      PROVE  /\ DraftAllowed(r[i])
             /\ r[i].to = "states" =>
                   /\ i = Len(r)
                   /\ \A d \in r[i].row.kept :
                         d \in docs \/ \E j \in DOMAIN r : r[j].to = "docs" /\ r[j].row = d
  <2>1. CASE i <= Len(p)
    <3>1. i \in 1 .. Len(p)
      BY <1>2, <2>1
    <3> QED
      BY <1>1, <3>1
  <2>2. CASE ~(i <= Len(p))
    <3>1. PICK k \in 1 .. Len(q) : i = Len(p) + k
      <4>1. i - Len(p) \in 1 .. Len(q) /\ i = Len(p) + (i - Len(p))
        BY <1>2, <2>2
      <4> QED
        BY <4>1
    <3>2. r[i] = q[k]
      BY <1>1, <3>1
    <3>3. DraftAllowed(r[i])
      BY <3>2
    <3>4. ASSUME r[i].to = "states"
          PROVE  /\ i = Len(r)
                 /\ \A d \in r[i].row.kept :
                      d \in docs \/ \E j \in DOMAIN r : r[j].to = "docs" /\ r[j].row = d
      <4>1. k = Len(q) /\ q[k].to = "states"
        BY <3>2, <3>4
      <4>2. i = Len(r)
        BY <1>1, <3>1, <4>1
      <4>3. ASSUME NEW d \in r[i].row.kept
            PROVE  d \in docs \/ \E j \in DOMAIN r : r[j].to = "docs" /\ r[j].row = d
        <5>1. \/ d \in docs
              \/ \E j \in 1 .. Len(p) : p[j].to = "docs" /\ p[j].row = d
              \/ \E j \in 1 .. Len(q) : q[j].to = "docs" /\ q[j].row = d
          BY <3>2, <4>1, <4>3
        <5>2. ASSUME NEW j \in 1 .. Len(p), p[j].to = "docs" /\ p[j].row = d
              PROVE  \E h \in DOMAIN r : r[h].to = "docs" /\ r[h].row = d
          BY <1>1, <1>3, <5>2
        <5>3. ASSUME NEW j \in 1 .. Len(q), q[j].to = "docs" /\ q[j].row = d
              PROVE  \E h \in DOMAIN r : r[h].to = "docs" /\ r[h].row = d
          <6>1. Len(p) + j \in DOMAIN r /\ r[Len(p) + j] = q[j]
            BY <1>1, <1>4
          <6> QED
            BY <5>3, <6>1
        <5> QED
          BY <5>1, <5>2, <5>3
      <4> QED
        BY <4>2, <4>3
    <3> QED
      BY <3>3, <3>4
  <2> QED
    BY <2>1, <2>2
<1> QED
  BY <1>1, <1>5 DEF Queued, r

LEMMA DraftsOfDocs ==
    ASSUME NEW M \in SUBSET Document, Single(M), \A d \in M : DocAllowed(d)
    PROVE  /\ DocumentDrafts(M) \in Seq(Draft)
           /\ \A i \in 1 .. Len(DocumentDrafts(M)) :
                 DraftAllowed(DocumentDrafts(M)[i]) /\ DocumentDrafts(M)[i].to # "states"
           /\ \A d \in M : \E j \in 1 .. Len(DocumentDrafts(M)) :
                 DocumentDrafts(M)[j].to = "docs" /\ DocumentDrafts(M)[j].row = d
<1> DEFINE q == DocumentDrafts(M)
<1>1. q \in Seq(DocDraft) /\ Range(q) = {[to |-> "docs", rev |-> 1, row |-> d] : d \in M}
  BY DocumentDraftsRange
<1> HIDE DEF q
<1>2. DOMAIN q = 1 .. Len(q)
  BY <1>1
<1>3. \A x \in DocDraft : x \in Draft
  BY DEF DocDraft, Draft
<1>4. q \in Seq(Draft)
  BY <1>1, <1>3
<1>5. ASSUME NEW i \in 1 .. Len(q) PROVE DraftAllowed(q[i]) /\ q[i].to # "states"
  <2>1. q[i] \in Range(q)
    BY <1>2 DEF Range
  <2>2. PICK d \in M : q[i] = [to |-> "docs", rev |-> 1, row |-> d]
    BY <1>1, <2>1
  <2>3. q[i].to = "docs" /\ q[i].row = d
    BY <2>2
  <2> QED
    BY <2>3 DEF DraftAllowed
<1>6. ASSUME NEW d \in M
      PROVE  \E j \in 1 .. Len(q) : q[j].to = "docs" /\ q[j].row = d
  <2>1. [to |-> "docs", rev |-> 1, row |-> d] \in Range(q)
    BY <1>1
  <2>2. PICK j \in 1 .. Len(q) : q[j] = [to |-> "docs", rev |-> 1, row |-> d]
    BY <1>2, <2>1 DEF Range
  <2> QED
    BY <2>2
<1> QED
  BY <1>4, <1>5, <1>6 DEF q

(* The queue of a command that ends with a state.                          *)
LEMMA QueueMade ==
    ASSUME NEW M \in SUBSET Document, Single(M), \A d \in M : DocAllowed(d),
           NEW n \in Nat \ {0}, NEW s \in State, StateAllowed(n, s), s.kept \subseteq docs \union M
    PROVE  LET q == DocumentDrafts(M) \o <<[to |-> "states", rev |-> n, row |-> s]>> IN
           q \in Seq(Draft) /\ Queued(q)
<1> DEFINE e == [to |-> "states", rev |-> n, row |-> s]
           p == DocumentDrafts(M)
<1>1. e \in Draft /\ e.to = "states" /\ e.rev = n /\ e.row = s
  BY DEF Draft
<1>2. DraftAllowed(e)
  BY <1>1 DEF DraftAllowed
<1> HIDE DEF e
<1>3. <<e>> \in Seq(Draft) /\ Len(<<e>>) = 1 /\ <<e>>[1] = e
  BY <1>1
<1>4. /\ p \in Seq(Draft)
      /\ \A i \in 1 .. Len(p) : DraftAllowed(p[i]) /\ p[i].to # "states"
      /\ \A d \in M : \E j \in 1 .. Len(p) : p[j].to = "docs" /\ p[j].row = d
  BY DraftsOfDocs
<1> HIDE DEF p
<1> DEFINE q == <<e>>
<1>5. ASSUME NEW i \in 1 .. Len(q)
      PROVE  /\ DraftAllowed(q[i])
             /\ q[i].to = "states" =>
                    /\ i = Len(q)
                    /\ \A d \in q[i].row.kept :
                          \/ d \in docs
                          \/ \E j \in 1 .. Len(p) : p[j].to = "docs" /\ p[j].row = d
                          \/ \E j \in 1 .. Len(q) : q[j].to = "docs" /\ q[j].row = d
  <2>1. i = 1 /\ q[i] = e /\ Len(q) = 1
    BY <1>3
  <2>2. \A d \in s.kept : d \in docs \/ \E j \in 1 .. Len(p) : p[j].to = "docs" /\ p[j].row = d
    BY <1>4
  <2> QED
    BY <1>1, <1>2, <2>1, <2>2
<1>6. q \in Seq(Draft)
  BY <1>3
<1> HIDE DEF q
<1>7. p \o q \in Seq(Draft) /\ Queued(p \o q)
  BY <1>4, <1>5, <1>6, QueueConcat
<1> QED
  BY <1>7 DEF p, q, e

LEMMA DocsQueue ==
    ASSUME NEW M \in SUBSET Document, Single(M), \A d \in M : DocAllowed(d)
    PROVE  LET q == DocumentDrafts(M) \o <<>> IN q \in Seq(Draft) /\ Queued(q)
<1> DEFINE p == DocumentDrafts(M)
<1>1. /\ p \in Seq(Draft)
      /\ \A i \in 1 .. Len(p) : DraftAllowed(p[i]) /\ p[i].to # "states"
  BY DraftsOfDocs
<1> HIDE DEF p
<1>2. ASSUME NEW q \in Seq(Draft), Len(q) = 0 PROVE p \o q \in Seq(Draft) /\ Queued(p \o q)
  <2>1. \A i \in 1 .. Len(q) : FALSE
    BY <1>2
  <2> QED
    BY <1>1, <2>1, QueueConcat
<1>3. <<>> \in Seq(Draft) /\ Len(<<>>) = 0
  OBVIOUS
<1> QED
  BY <1>2, <1>3 DEF p

LEMMA DesignQueue ==
    ASSUME DInv, NEW command, NEW a, NEW g, Chosen(command, a, g)
    PROVE  DesignDrafts(command, g, a) \in Seq(Draft) /\ Queued(DesignDrafts(command, g, a))
<1> DEFINE last == LastOf(command, g, a)
           missing == MissingOf(command, g, a)
<1>1. DesignDrafts(command, g, a) = DocumentDrafts(missing) \o StateDrafts(last)
  BY DEF DesignDrafts, LastOf, MissingOf, KeptOf, FirstOf, SourceOf
<1>2. /\ last \in State
      /\ (Started /\ Latest = last) \/ StateAllowed(Len(states) + 1, last)
      /\ \A d \in missing : DocAllowed(d)
  BY EveryDecision DEF Decided
<1>3. /\ g \in SUBSET Document /\ Single(g)
      /\ ApprovedLevel = "NOT_APPLICABLE" => a = <<>>
  BY InputFacts
<1>4. missing \in SUBSET Document /\ Single(missing)
  BY <1>3, KeptFacts DEF Single
<1>5. last.kept \subseteq docs \union missing
  BY <1>3, KeptFacts, LastKept
<1>6. Len(states) + 1 \in Nat \ {0}
  BY DEF DInv, TypeOK
<1> HIDE DEF last, missing
<1>7. CASE Started /\ Latest = last
  <2>1. StateDrafts(last) = <<>>
    BY <1>7 DEF StateDrafts
  <2> QED
    BY <1>1, <1>2, <1>4, <2>1, DocsQueue
<1>8. CASE ~(Started /\ Latest = last)
  <2>1. StateDrafts(last) = <<[to |-> "states", rev |-> Len(states) + 1, row |-> last]>>
    BY <1>8 DEF StateDrafts
  <2> QED
    BY <1>1, <1>2, <1>4, <1>5, <1>6, <1>8, <2>1, QueueMade
<1> QED
  BY <1>7, <1>8

-----------------------------------------------------------------------------
(* The feature commands: their stage, the brief of a design that is not    *)
(* applicable, and the first state.                                        *)
LEMMA StageRanks ==
    /\ StageRank("ADDED") = 1 /\ StageRank("ANALYZED") = 2 /\ StageRank("PREPARED") = 3
    /\ Range(Stages) = {"ADDED", "ANALYZED", "PREPARED"}
<1>1. Stages[1] = "ADDED" /\ Stages[2] = "ANALYZED" /\ Stages[3] = "PREPARED"
  BY DEF Stages
<1>2. \A n \in 1 .. 3 : n = 1 \/ n = 2 \/ n = 3
  OBVIOUS
<1>3. DOMAIN Stages = 1 .. 3
  BY DEF Stages
<1>4. Range(Stages) = {"ADDED", "ANALYZED", "PREPARED"}
  BY <1>1, <1>2, <1>3 DEF Range
<1>5. StageRank("ADDED") = 1
  BY <1>1, <1>2 DEF StageRank
<1>6. StageRank("ANALYZED") = 2
  BY <1>1, <1>2 DEF StageRank
<1>7. StageRank("PREPARED") = 3
  BY <1>1, <1>2 DEF StageRank
<1> QED
  BY <1>4, <1>5, <1>6, <1>7

LEMMA BootstrapAllowed ==
    ASSUME DInv, NEW source \in 0 .. 3
    PROVE  /\ Bootstrap(source) \in State
           /\ ~Started => StateAllowed(1, Bootstrap(source))
           /\ Single(Bootstrap(source).kept)
           /\ \A d \in Bootstrap(source).kept : DocAllowed(d)
<1> DEFINE s == Bootstrap(source)
           level == Effective(class)
           brief == DerivedBrief(level)
<1>1. /\ class \in Classes /\ level \in Levels /\ NeedsDowngrade(class) \in BOOLEAN
      /\ NeedsDowngrade(class) => level = "CRITICAL" /\ ApprovedLevel # "NOT_APPLICABLE"
      /\ ~NeedsDowngrade(class) => ApprovedLevel = level
  BY ClassLevels DEF DInv, TypeOK
<1>2. brief \in Document /\ brief.type = "design-brief"
  <2>1. "design-brief" \in Types /\ BriefOf[level] \in Payloads
    BY <1>1, Constants DEF Types, CriticalTypes, StandardTypes, LiteTypes
  <2> QED
    BY <2>1 DEF DerivedBrief, Document
<1>3. /\ s.level = level /\ s.approvals = <<>> /\ s.commits = {brief} /\ s.source = source
      /\ s.pending = NeedsDowngrade(class)
      /\ s.kept = IF level = "NOT_APPLICABLE" THEN {brief} ELSE {}
  BY DEF Bootstrap
<1>4. s.state = CASE level = "NOT_APPLICABLE" -> "NOT_APPLICABLE"
                  [] NeedsDowngrade(class) -> "DOWNGRADE_PENDING"
                  [] OTHER -> "INITIALIZED"
  BY DEF Bootstrap
<1>5. /\ level = "NOT_APPLICABLE" => s.state = "NOT_APPLICABLE" /\ ~NeedsDowngrade(class)
      /\ NeedsDowngrade(class) => s.state = "DOWNGRADE_PENDING"
      /\ level # "NOT_APPLICABLE" /\ ~NeedsDowngrade(class) => s.state = "INITIALIZED"
  BY <1>1, <1>4
<1>6. s \in State
  <2>1. s = [state |-> s.state, level |-> level, pending |-> NeedsDowngrade(class),
             approvals |-> <<>>, commits |-> {brief}, kept |-> s.kept, source |-> source]
    BY DEF Bootstrap
  <2>2. /\ s.state \in StateNames /\ level \in Levels /\ NeedsDowngrade(class) \in BOOLEAN
        /\ <<>> \in Seq(Records) /\ {brief} \in SUBSET Document /\ s.kept \in SUBSET Document
    BY <1>1, <1>2, <1>3, <1>5 DEF StateNames
  <2>3. ASSUME NEW state \in StateNames, NEW kept \in SUBSET Document,
               NEW pending \in BOOLEAN
        PROVE  [state |-> state, level |-> level, pending |-> pending, approvals |-> <<>>,
                commits |-> {brief}, kept |-> kept, source |-> source] \in State
    BY <2>2 DEF State
  <2> QED
    BY <2>1, <2>2, <2>3, Zenon
<1> HIDE DEF s, level, brief
<1>7. Single({brief}) /\ TypesOf({brief}) = {"design-brief"} /\ Single({})
  BY <1>2 DEF Single, TypesOf
<1>8. LevelValid(s)
  <2>1. \A i \in DOMAIN <<>> : FALSE
    OBVIOUS
  <2>2. s.pending = (NeedsDowngrade(class) /\ ~Holds(<<>>, "CRITICAL_DOWNGRADE"))
    <3>1. ~Holds(<<>>, "CRITICAL_DOWNGRADE")
      BY NoApprovals
    <3> QED
      BY <1>1, <1>3, <3>1, Zenon
  <2>3. s.level = IF s.pending THEN Effective(class) ELSE ApprovedLevel
    BY <1>1, <1>3 DEF level
  <2>4. TypesOf(s.commits) = IF Bootstrapped(s) THEN {"design-brief"} ELSE Required(s.level)
    <3>1. ~Bootstrapped(s) => level = "NOT_APPLICABLE"
      BY <1>5 DEF Bootstrapped
    <3> QED
      BY <1>1, <1>3, <1>7, <3>1, LevelTypes
  <2>5. s.pending => s.state = "DOWNGRADE_PENDING"
    BY <1>3, <1>5
  <2>6. Bootstrapped(s) => s.approvals = <<>> /\ s.kept = {} /\ s.level # "NOT_APPLICABLE"
    BY <1>3, <1>5 DEF Bootstrapped
  <2> QED
    BY <1>3, <1>7, <2>1, <2>2, <2>3, <2>4, <2>5, <2>6 DEF LevelValid
<1>9. ~Bootstrapped(s) => ProgressValid(s)
  <2> SUFFICES ASSUME ~Bootstrapped(s) PROVE ProgressValid(s)
    OBVIOUS
  <2>1. level = "NOT_APPLICABLE" /\ s.state = "NOT_APPLICABLE"
    BY <1>5 DEF Bootstrapped
  <2>2. StateOf(level, <<>>, s.kept) = "NOT_APPLICABLE"
    BY <2>1, NoApprovals DEF StateOf
  <2>3. Genuine(<<>>, level, s.commits)
    BY DEF Genuine
  <2> QED
    BY <1>3, <2>1, <2>2, <2>3, NoApprovals DEF ProgressValid, Canonical
<1>10. Shaped(s)
  BY <1>3, <1>5, <1>8, <1>9, NoApprovals DEF Shaped, SnapshotValid
<1>11. ~Started => StateAllowed(1, s)
  <2>1. IsRoot(s)
    BY <1>5 DEF IsRoot
  <2>2. ~Started => Len(states) = 0
    BY DEF Started
  <2> QED
    BY <1>10, <2>1, <2>2 DEF StateAllowed
<1>12. Single(s.kept) /\ \A d \in s.kept : DocAllowed(d)
  BY <1>1, <1>2, <1>3, <1>7 DEF DocAllowed
<1> QED
  BY <1>6, <1>11, <1>12 DEF s

LEMMA StartQueue ==
    ASSUME DInv, NEW source \in 0 .. 3
    PROVE  StartDrafts(source) \in Seq(Draft) /\ Queued(StartDrafts(source))
<1> DEFINE s == Bootstrap(source)
           M == s.kept \ docs
<1>1. /\ s \in State /\ (~Started => StateAllowed(1, s))
      /\ Single(s.kept) /\ \A d \in s.kept : DocAllowed(d)
  BY BootstrapAllowed
<1>2. s.kept \in SUBSET Document
  BY <1>1 DEF State
<1>3. M \in SUBSET Document /\ Single(M) /\ (\A d \in M : DocAllowed(d))
      /\ s.kept \subseteq docs \union M
  BY <1>1, <1>2 DEF Single
<1>4. StartDrafts(source) =
        DocumentDrafts(M) \o (IF Started THEN <<>>
                              ELSE <<[to |-> "states", rev |-> 1, row |-> s]>>)
  BY DEF StartDrafts
<1> HIDE DEF s, M
<1>5. CASE Started
  BY <1>3, <1>4, <1>5, DocsQueue
<1>6. CASE ~Started
  <2>1. 1 \in Nat \ {0}
    OBVIOUS
  <2> QED
    BY <1>1, <1>3, <1>4, <1>6, <2>1, QueueMade
<1> QED
  BY <1>5, <1>6

LEMMA FeatureQueue ==
    ASSUME DInv, NEW c \in Clients, NEW target \in Range(Stages), FeatureCommand(c, target)
    PROVE  FeatureDrafts(target) \in Seq(Draft) /\ Queued(FeatureDrafts(target))
<1> DEFINE current == IF feature = <<>> THEN 0 ELSE StageRank(feature[Len(feature)].stage)
           row == [stage |-> target, base |-> project.rev]
           e == [to |-> "feature", rev |-> Len(feature) + 1, row |-> row]
           rows == IF current >= StageRank(target) THEN <<>> ELSE <<e>>
           start == IF target = "PREPARED" THEN StartDrafts(Len(feature) + Len(rows)) ELSE <<>>
<1>1. FeatureDrafts(target) = rows \o start
  BY DEF FeatureDrafts
<1>2. /\ target \in {"ADDED", "ANALYZED", "PREPARED"} /\ StageRank(target) \in 1 .. 3
      /\ project.rev \in 1 .. MaxRevision /\ Len(feature) \in 0 .. 3
      /\ feature \in Seq(FeatureRow) /\ (feature = <<>> <=> Len(feature) = 0)
  <2>1. target \in {"ADDED", "ANALYZED", "PREPARED"} /\ StageRank(target) \in 1 .. 3
    BY StageRanks
  <2>2. feature \in Seq(FeatureRow) /\ Len(feature) <= 3
    BY DEF DInv, TypeOK
  <2>3. project.rev \in 1 .. MaxRevision
    BY DEF DInv, TypeOK
  <2>4. feature = <<>> <=> Len(feature) = 0
    BY <2>2
  <2>5. Len(feature) \in Nat /\ Len(feature) <= 3
    BY <2>2
  <2>6. \A n \in Nat : n <= 3 => n \in 0 .. 3
    OBVIOUS
  <2>7. Len(feature) \in 0 .. 3
    BY <2>5, <2>6, Zenon
  <2> QED
    BY <2>1, <2>2, <2>3, <2>4, <2>7
<1>3. ASSUME feature # <<>>
      PROVE  /\ current = StageRank(feature[Len(feature)].stage) /\ current >= Len(feature)
             /\ current \in 1 .. 3
             /\ feature[1].base = project.rev
  <2>1. Len(feature) \in DOMAIN feature /\ Len(feature) \in 1 .. 3
    BY <1>2, <1>3
  <2>2. FeatureAllowed(Len(feature), feature[Len(feature)])
    BY <2>1 DEF DInv, FeatureProper
  <2>3. feature[Len(feature)].base = project.rev
    BY <1>3 DEF FeatureCommand, BaseCurrent
  <2>4. feature[1].base = project.rev
    BY <2>1, <2>2, <2>3 DEF FeatureAllowed
  <2>5. feature[Len(feature)] \in FeatureRow
    BY <1>2, <2>1
  <2>6. feature[Len(feature)].stage \in {"ADDED", "ANALYZED", "PREPARED"}
    BY <2>5 DEF FeatureRow
  <2>7. current = StageRank(feature[Len(feature)].stage) /\ current \in 1 .. 3
    BY <1>3, <2>6, StageRanks
  <2> QED
    BY <2>2, <2>4, <2>7 DEF FeatureAllowed
<1>4. feature = <<>> => current = 0
  OBVIOUS
<1> HIDE DEF current
<1>5. e \in Draft /\ e.to = "feature" /\ e.rev = Len(feature) + 1 /\ e.row = row
  <2>1. row \in FeatureRow
    BY <1>2 DEF FeatureRow
  <2> HIDE DEF row
  <2> QED
    BY <1>2, <2>1 DEF Draft
<1>6. row.stage = target /\ row.base = project.rev
  OBVIOUS
<1> HIDE DEF e, row
<1>7. ASSUME ~(current >= StageRank(target))
      PROVE  DraftAllowed(e) /\ Len(feature) + 1 <= 3
  <2>1. Len(feature) + 1 <= StageRank(target)
    BY <1>2, <1>3, <1>4, <1>7
  <2>2. Len(feature) + 1 > 1 =>
          /\ row.base = feature[1].base
          /\ StageRank(row.stage) > StageRank(feature[Len(feature)].stage)
    BY <1>2, <1>3, <1>6, <1>7
  <2>3. FeatureAllowed(Len(feature) + 1, row)
    BY <1>2, <1>6, <2>1, <2>2 DEF FeatureAllowed
  <2> QED
    BY <1>2, <1>5, <2>1, <2>3 DEF DraftAllowed
<1>8. /\ rows \in Seq(Draft) /\ Len(feature) + Len(rows) \in 0 .. 3
      /\ \A i \in 1 .. Len(rows) : DraftAllowed(rows[i]) /\ rows[i].to # "states"
  <2>1. CASE current >= StageRank(target)
    BY <1>2, <2>1
  <2>2. CASE ~(current >= StageRank(target))
    <3>1. rows = <<e>>
      BY <2>2
    <3>2. Len(rows) = 1 /\ rows[1] = e /\ rows \in Seq(Draft)
      BY <1>5, <3>1
    <3> HIDE DEF rows
    <3> QED
      BY <1>2, <1>5, <1>7, <2>2, <3>2
  <2> QED
    BY <2>1, <2>2
<1> HIDE DEF rows
<1>9. start \in Seq(Draft) /\ Queued(start)
  <2>1. CASE target = "PREPARED"
    BY <1>8, <2>1, StartQueue
  <2>2. CASE target # "PREPARED"
    <3>1. start = <<>> /\ <<>> \in Seq(Draft) /\ DOMAIN <<>> = {}
      BY <2>2
    <3> HIDE DEF start
    <3> QED
      BY <3>1 DEF Queued
  <2> QED
    BY <2>1, <2>2
<1> HIDE DEF start
<1>10. \A i \in 1 .. Len(start) :
          /\ DraftAllowed(start[i])
          /\ start[i].to = "states" =>
                /\ i = Len(start)
                /\ \A d \in start[i].row.kept :
                      \/ d \in docs
                      \/ \E j \in 1 .. Len(rows) : rows[j].to = "docs" /\ rows[j].row = d
                      \/ \E j \in 1 .. Len(start) : start[j].to = "docs" /\ start[j].row = d
  BY <1>9 DEF Queued
<1> QED
  BY <1>1, <1>8, <1>9, <1>10, QueueConcat

-----------------------------------------------------------------------------
(* What may be recorded stays so, whatever else is recorded.               *)
Grown ==
    /\ class' = class /\ docs \subseteq docs'
    /\ Len(states) <= Len(states') /\ Len(states') \in Nat
    /\ \A n \in DOMAIN states : n \in DOMAIN states' /\ states'[n] = states[n]
    /\ Len(feature) <= Len(feature') /\ Len(feature') \in Nat
    /\ \A n \in DOMAIN feature : n \in DOMAIN feature' /\ feature'[n] = feature[n]

LEMMA ClassKept ==
    ASSUME class' = class
    PROVE  /\ ApprovedLevel' = ApprovedLevel
           /\ \A s : Shaped(s)' <=> Shaped(s)
           /\ \A s, t : Follows(s, t)' <=> Follows(s, t)
<1>1. ApprovedLevel' = ApprovedLevel
  BY DEF ApprovedLevel
<1>2. KindOrder' = KindOrder
  BY DEF KindOrder
<1>3. ASSUME NEW s PROVE LevelValid(s)' <=> LevelValid(s)
  BY <1>1 DEF LevelValid
<1>4. ASSUME NEW s PROVE ProgressValid(s)' <=> ProgressValid(s)
  BY <1>2 DEF ProgressValid
<1>5. ASSUME NEW s PROVE Shaped(s)' <=> Shaped(s)
  BY <1>3, <1>4 DEF Shaped, SnapshotValid
<1>6. ASSUME NEW s, NEW t PROVE Follows(s, t)' <=> Follows(s, t)
  BY DEF Follows
<1> QED
  BY <1>1, <1>5, <1>6

LEMMA DocStaysAllowed ==
    ASSUME Grown, NEW d, DocAllowed(d)
    PROVE  DocAllowed(d)'
<1>1. ApprovedLevel' = ApprovedLevel
  BY ClassKept DEF Grown
<1>2. CASE ApprovedLevel = "NOT_APPLICABLE"
  BY <1>1, <1>2 DEF DocAllowed
<1>3. CASE ApprovedLevel # "NOT_APPLICABLE"
  <2>1. PICK n \in DOMAIN states :
           /\ states[n].state = "SYSTEM_APPROVED"
           /\ d \in states[n].commits
           /\ d.type = "design-approval" =>
                 /\ \E m \in DOMAIN states : states[m].state = "FINAL_APPROVAL_PENDING"
                 /\ \E r \in Signed :
                       r.kind = "FINAL" /\ Bound(r, ApprovedLevel, states[n].commits)
    BY <1>3 DEF DocAllowed
  <2>2. n \in DOMAIN states' /\ states'[n] = states[n]
    BY DEF Grown
  <2>3. (\E m \in DOMAIN states : states[m].state = "FINAL_APPROVAL_PENDING") =>
           \E m \in DOMAIN states' : states'[m].state = "FINAL_APPROVAL_PENDING"
    BY DEF Grown
  <2> QED
    BY <1>1, <1>3, <2>1, <2>2, <2>3 DEF DocAllowed
<1> QED
  BY <1>2, <1>3

LEMMA StateStaysAllowed ==
    ASSUME TypeOK, Grown, NEW n, NEW s, StateAllowed(n, s)
    PROVE  StateAllowed(n, s)'
<1>1. /\ n \in 1 .. Len(states) + 1 /\ Shaped(s) /\ (n = 1 => IsRoot(s))
      /\ n > 1 => Follows(s, states[n - 1]) \/ Repeats(s, states[n - 1])
      /\ \A k \in 2 .. n - 1 : Follows(states[k], states[k - 1])
  BY DEF StateAllowed
<1>2. /\ Shaped(s)' <=> Shaped(s)
      /\ \A t, u : Follows(t, u)' <=> Follows(t, u)
  BY ClassKept DEF Grown
<1>3. Len(states) \in Nat /\ DOMAIN states = 1 .. Len(states)
  BY DEF TypeOK
<1>4. \A k \in 1 .. n - 1 : states'[k] = states[k]
  BY <1>1, <1>3 DEF Grown
<1>5. n \in 1 .. Len(states') + 1
  BY <1>1, <1>3 DEF Grown
<1>6. n > 1 => Follows(s, states[n - 1])' \/ Repeats(s, states[n - 1])'
  <2>1. n > 1 => states'[n - 1] = states[n - 1]
    BY <1>1, <1>3, <1>4
  <2> QED
    BY <1>1, <1>2, <2>1
<1>7. ASSUME NEW k \in 2 .. n - 1 PROVE Follows(states[k], states[k - 1])'
  <2>1. k \in 1 .. n - 1 /\ k - 1 \in 1 .. n - 1
    BY <1>1, <1>3
  <2>2. states'[k] = states[k] /\ states'[k - 1] = states[k - 1]
    BY <1>4, <2>1
  <2> QED
    BY <1>1, <1>2, <2>2
<1> QED
  BY <1>1, <1>2, <1>5, <1>6, <1>7 DEF StateAllowed

LEMMA FeatureStaysAllowed ==
    ASSUME TypeOK, Grown, NEW n, NEW row, FeatureAllowed(n, row)
    PROVE  FeatureAllowed(n, row)'
<1>1. /\ n \in 1 .. Len(feature) + 1 /\ StageRank(row.stage) >= n
      /\ n > 1 => /\ StageRank(row.stage) > StageRank(feature[n - 1].stage)
                  /\ row.base = feature[1].base
  BY DEF FeatureAllowed
<1>2. Len(feature) \in Nat /\ DOMAIN feature = 1 .. Len(feature)
  BY DEF TypeOK
<1>3. n > 1 => feature'[n - 1] = feature[n - 1] /\ feature'[1] = feature[1]
  BY <1>1, <1>2 DEF Grown
<1>4. n \in 1 .. Len(feature') + 1
  BY <1>1, <1>2 DEF Grown
<1> QED
  BY <1>1, <1>3, <1>4 DEF FeatureAllowed

LEMMA QueueStays ==
    ASSUME TypeOK, Grown, NEW q, Queued(q)
    PROVE  Queued(q)'
<1>1. ASSUME NEW i \in DOMAIN q PROVE DraftAllowed(q[i])'
  BY DocStaysAllowed, StateStaysAllowed, FeatureStaysAllowed DEF Queued, DraftAllowed
<1>2. ASSUME NEW i \in DOMAIN q, q[i].to = "states"
      PROVE  /\ i = Len(q)
             /\ \A d \in q[i].row.kept :
                   d \in docs' \/ \E j \in DOMAIN q : q[j].to = "docs" /\ q[j].row = d
  BY <1>2 DEF Queued, Grown
<1> QED
  BY <1>1, <1>2 DEF Queued

LEMMA LogsKept ==
    ASSUME DInv, UNCHANGED <<class, docs, states, feature>>
    PROVE  Grown /\ DocsGated' /\ StatesProper' /\ StatesClimb' /\ FeatureProper'
<1>1. Len(states) \in Nat /\ Len(feature) \in Nat
  BY DEF DInv, TypeOK
<1>2. Grown
  BY <1>1 DEF Grown
<1>3. DocsGated'
  BY <1>2, DocStaysAllowed DEF DInv, DocsGated
<1>4. StatesProper'
  BY <1>2, StateStaysAllowed DEF DInv, StatesProper
<1>5. StatesClimb'
  BY DEF DInv, StatesClimb
<1>6. FeatureProper'
  BY <1>2, FeatureStaysAllowed DEF DInv, FeatureProper
<1> QED
  BY <1>2, <1>3, <1>4, <1>5, <1>6

(* A step that changes no log, and gives one client a proper queue.        *)
LEMMA NewQueue ==
    ASSUME DInv, UNCHANGED <<class, docs, states, feature>>, NEW c \in Clients,
           NEW q \in Seq(Draft), Queued(q), work' = [work EXCEPT ![c] = q],
           project' = project, deaths' \in 0 .. MaxDeaths
    PROVE  DInv'
<1>1. Grown /\ DocsGated' /\ StatesProper' /\ StatesClimb' /\ FeatureProper'
  BY LogsKept
<1>2. work \in [Clients -> Seq(Draft)]
  BY DEF DInv, TypeOK
<1>3. work' \in [Clients -> Seq(Draft)]
  BY <1>2
<1>4. TypeOK'
  BY <1>3 DEF DInv, TypeOK
<1>5. ASSUME NEW b \in Clients, NEW t, t = work'[b] PROVE Queued(t)'
  <2>1. t = q \/ t = work[b]
    BY <1>2, <1>5
  <2>2. Queued(t)
    BY <2>1 DEF DInv, QueuesProper
  <2> QED
    BY <1>1, <2>2, QueueStays DEF DInv
<1>6. QueuesProper'
  BY <1>5 DEF QueuesProper
<1> QED
  BY <1>1, <1>4, <1>6 DEF DInv

-----------------------------------------------------------------------------
(* The three logs, each with one more entry.                               *)
DocKept(d) ==
    /\ d \in Document /\ DocAllowed(d)
    /\ docs' = docs \union {d} /\ Single(docs \union {d}) /\ UNCHANGED <<class, states, feature>>

StateRecorded(s) ==
    /\ s \in State /\ StateAllowed(Len(states) + 1, s) /\ s.kept \subseteq docs
    /\ states' = Append(states, s) /\ UNCHANGED <<class, docs, feature>>

StageRecorded(row) ==
    /\ row \in FeatureRow /\ FeatureAllowed(Len(feature) + 1, row)
    /\ feature' = Append(feature, row) /\ UNCHANGED <<class, docs, states>>

LogsProper ==
    /\ docs \subseteq Document /\ states \in Seq(State)
    /\ feature \in Seq(FeatureRow) /\ Len(feature) <= 3
    /\ DocsGated /\ StatesProper /\ StatesClimb /\ FeatureProper

LEMMA DocStep ==
    ASSUME DInv, NEW d, DocKept(d)
    PROVE  Grown /\ LogsProper'
<1>1. Len(states) \in Nat /\ Len(feature) \in Nat
  BY DEF DInv, TypeOK
<1>2. Grown
  BY <1>1 DEF Grown, DocKept
<1>3. DocsGated'
  <2>1. Single(docs')
    BY DEF DocKept
  <2>2. \A e \in docs' : DocAllowed(e)
    BY DEF DInv, DocsGated, DocKept
  <2>3. \A e \in docs' : DocAllowed(e)'
    BY <1>2, <2>2, DocStaysAllowed
  <2>4. Single(docs)'
    BY <2>1 DEF Single
  <2> QED
    BY <2>3, <2>4 DEF DocsGated
<1>4. StatesProper'
  BY <1>2, StateStaysAllowed DEF DInv, StatesProper, DocKept
<1>5. StatesClimb'
  BY DEF DInv, StatesClimb, DocKept
<1>6. FeatureProper'
  BY <1>2, FeatureStaysAllowed DEF DInv, FeatureProper, DocKept
<1> QED
  BY <1>2, <1>3, <1>4, <1>5, <1>6 DEF LogsProper, DInv, TypeOK, DocKept

(* The latest state stays below its successor, with the same commitments.  *)
LEMMA SuccessorRank ==
    ASSUME DInv, Started, NEW s \in State, StateAllowed(Len(states) + 1, s)
    PROVE  /\ Rank(Latest.state) \in 0 .. 4 /\ Rank(s.state) \in 1 .. 5
           /\ \/ Follows(s, Latest) /\ Rank(s.state) = Rank(Latest.state) + 1
              \/ Repeats(s, Latest) /\ Rank(s.state) = 4 /\ Rank(Latest.state) = 4
           /\ ~Bootstrapped(Latest) => s.commits = Latest.commits
           /\ ~Bootstrapped(s)
<1>1. /\ Latest.state \in StateNames /\ Len(states) \in Nat \ {0} /\ s.state \in StateNames
      /\ Bootstrapped(Latest) <=> Latest.state \in {"INITIALIZED", "DOWNGRADE_PENDING"}
  BY LatestFacts DEF State
<1>2. Follows(s, Latest) \/ Repeats(s, Latest)
  BY <1>1 DEF StateAllowed, Latest
<1>3. Rank(Latest.state) \in 0 .. 5 /\ Rank(s.state) \in 0 .. 5
  BY <1>1, Ranks
<1>4. CASE Follows(s, Latest)
  <2>1. Rank(s.state) = Rank(Latest.state) + 1
    BY <1>4 DEF Follows
  <2>2. ~Bootstrapped(Latest) => s.commits = Latest.commits
    BY <1>1, <1>4 DEF Follows
  <2>3. ~Bootstrapped(s)
    BY <1>1, <1>3, <2>1, Ranks DEF Bootstrapped
  <2> QED
    BY <1>3, <1>4, <2>1, <2>2, <2>3
<1>5. CASE Repeats(s, Latest)
  BY <1>5 DEF Repeats, Rank, Bootstrapped
<1> QED
  BY <1>2, <1>4, <1>5

LEMMA StateStep ==
    ASSUME DInv, NEW s, StateRecorded(s)
    PROVE  Grown /\ LogsProper'
<1> DEFINE N == Len(states)
<1>1. /\ N \in Nat /\ Len(feature) \in Nat /\ s \in State /\ states \in Seq(State)
      /\ DOMAIN states = 1 .. N
  BY DEF DInv, TypeOK, StateRecorded
<1>2. /\ states' \in Seq(State) /\ Len(states') = N + 1 /\ DOMAIN states' = 1 .. N + 1
      /\ states'[N + 1] = s /\ \A n \in 1 .. N : states'[n] = states[n]
  BY <1>1 DEF StateRecorded
<1>3. Grown
  BY <1>1, <1>2 DEF Grown, StateRecorded
<1>4. DocsGated'
  BY <1>3, DocStaysAllowed DEF DInv, DocsGated, StateRecorded
<1>5. \A n \in 1 .. N + 1 : n \in 1 .. N \/ n = N + 1
  BY <1>1
<1>6. StatesProper'
  <2>1. ASSUME NEW n \in 1 .. N + 1
        PROVE  StateAllowed(n, states'[n]) /\ states'[n].kept \subseteq docs
    <3>1. CASE n \in 1 .. N
      BY <1>1, <1>2, <3>1 DEF DInv, StatesProper
    <3>2. CASE n = N + 1
      BY <1>2, <3>2 DEF StateRecorded
    <3> QED
      BY <1>5, <3>1, <3>2
  <2>2. TypeOK
    BY DEF DInv
  <2>3. ASSUME NEW n \in 1 .. N + 1, NEW t, t = states'[n]
        PROVE  StateAllowed(n, t)' /\ t.kept \subseteq docs'
    BY <1>3, <2>1, <2>2, <2>3, StateStaysAllowed DEF StateRecorded
  <2> QED
    BY <1>2, <2>3 DEF StatesProper
<1>7. StatesClimb'
  <2>1. ASSUME NEW m \in 1 .. N
        PROVE  /\ Rank(states[m].state) < 5 /\ Rank(states[m].state) <= Rank(s.state)
               /\ ~Bootstrapped(states[m]) => states[m].commits = s.commits
    <3>1. Started /\ N \in DOMAIN states /\ Latest = states[N]
      BY <1>1 DEF Started, Latest
    <3>2. /\ Rank(Latest.state) \in 0 .. 4 /\ Rank(Latest.state) <= Rank(s.state)
          /\ Rank(s.state) \in 1 .. 5
          /\ ~Bootstrapped(Latest) => s.commits = Latest.commits
      BY <1>1, <3>1, SuccessorRank DEF StateRecorded
    <3>3. /\ Rank(states[m].state) \in 0 .. 5
          /\ Bootstrapped(states[m]) <=> Rank(states[m].state) = 0
          /\ Bootstrapped(Latest) <=> Rank(Latest.state) = 0
      BY <1>1, <3>1, RecordedStates DEF DInv
    <3>4. m = N \/ m < N
      <4>1. \A n \in Nat : \A k \in 1 .. n : k = n \/ k < n
        OBVIOUS
      <4> QED
        BY <1>1, <4>1, Zenon
    <3>5. CASE m = N
      BY <3>1, <3>2, <3>5
    <3>6. CASE m < N
      <4>1. Rank(states[m].state) < 5 /\ Rank(states[m].state) <= Rank(Latest.state)
        BY <1>1, <3>1, <3>6 DEF DInv, StatesClimb
      <4>2. ~Bootstrapped(states[m]) => ~Bootstrapped(Latest)
        BY <3>2, <3>3, <4>1
      <4>3. ~Bootstrapped(states[m]) => states[m].commits = Latest.commits
        BY <1>1, <3>1, <4>2 DEF DInv, StatesClimb
      <4> QED
        BY <3>2, <3>3, <4>1, <4>2, <4>3
    <3> QED
      BY <3>4, <3>5, <3>6
  <2>2. ASSUME NEW m \in 1 .. N + 1, NEW n \in 1 .. N + 1
        PROVE  /\ m < n => /\ Rank(states'[m].state) < 5
                           /\ Rank(states'[m].state) <= Rank(states'[n].state)
               /\ ~Bootstrapped(states'[m]) /\ ~Bootstrapped(states'[n])
                     => states'[m].commits = states'[n].commits
    <3>1. CASE m \in 1 .. N /\ n \in 1 .. N
      BY <1>1, <1>2, <3>1 DEF DInv, StatesClimb
    <3>2. CASE m \in 1 .. N /\ n = N + 1
      BY <1>2, <2>1, <3>2
    <3>3. CASE m = N + 1 /\ n \in 1 .. N
      BY <1>1, <1>2, <2>1, <3>3
    <3>4. CASE m = N + 1 /\ n = N + 1
      BY <1>1, <3>4
    <3> QED
      BY <1>5, <3>1, <3>2, <3>3, <3>4
  <2> QED
    BY <1>2, <2>2 DEF StatesClimb, Bootstrapped
<1>8. FeatureProper'
  BY <1>3, FeatureStaysAllowed DEF DInv, FeatureProper, StateRecorded
<1> QED
  BY <1>2, <1>3, <1>4, <1>6, <1>7, <1>8 DEF LogsProper, DInv, TypeOK, StateRecorded

LEMMA StageStep ==
    ASSUME DInv, NEW row, StageRecorded(row)
    PROVE  Grown /\ LogsProper'
<1> DEFINE N == Len(feature)
<1>1. /\ N \in Nat /\ Len(states) \in Nat /\ row \in FeatureRow /\ feature \in Seq(FeatureRow)
      /\ DOMAIN feature = 1 .. N
  BY DEF DInv, TypeOK, StageRecorded
<1>2. /\ feature' \in Seq(FeatureRow) /\ Len(feature') = N + 1 /\ DOMAIN feature' = 1 .. N + 1
      /\ feature'[N + 1] = row /\ \A n \in 1 .. N : feature'[n] = feature[n]
  BY <1>1 DEF StageRecorded
<1>3. Grown
  BY <1>1, <1>2 DEF Grown, StageRecorded
<1>4. DocsGated'
  BY <1>3, DocStaysAllowed DEF DInv, DocsGated, StageRecorded
<1>5. StatesProper'
  BY <1>3, StateStaysAllowed DEF DInv, StatesProper, StageRecorded
<1>6. StatesClimb'
  BY DEF DInv, StatesClimb, StageRecorded
<1>7. FeatureProper'
  <2>1. TypeOK
    BY DEF DInv
  <2>2. ASSUME NEW n \in 1 .. N + 1 PROVE FeatureAllowed(n, feature'[n])
    <3>1. CASE n \in 1 .. N
      BY <1>1, <1>2, <3>1 DEF DInv, FeatureProper
    <3>2. CASE n = N + 1
      BY <1>2, <3>2 DEF StageRecorded
    <3> QED
      BY <1>1, <3>1, <3>2
  <2>3. ASSUME NEW n \in 1 .. N + 1, NEW r, r = feature'[n] PROVE FeatureAllowed(n, r)'
    BY <1>3, <2>1, <2>2, <2>3, FeatureStaysAllowed
  <2> QED
    BY <1>2, <2>3 DEF FeatureProper
<1>8. Len(feature') <= 3
  <2>1. StageRank(row.stage) >= N + 1 /\ row.stage \in {"ADDED", "ANALYZED", "PREPARED"}
    BY DEF StageRecorded, FeatureAllowed, FeatureRow
  <2>2. StageRank(row.stage) \in 1 .. 3
    BY <2>1, StageRanks
  <2> QED
    BY <1>1, <1>2, <2>1, <2>2
<1> QED
  BY <1>2, <1>3, <1>4, <1>5, <1>6, <1>7, <1>8 DEF LogsProper, DInv, TypeOK, StageRecorded

-----------------------------------------------------------------------------
(* What the append of a draft does to the logs.                            *)
LEMMA AppendLogs ==
    ASSUME DInv, NEW c \in Clients, AppendNext(c)
    PROVE  /\ \/ \E d \in Document : DocKept(d)
              \/ \E s \in State : StateRecorded(s)
              \/ \E row \in FeatureRow : StageRecorded(row)
              \/ UNCHANGED <<class, docs, states, feature>>
           /\ Head(work[c]).to = "docs" => Head(work[c]).row \in docs'
<1> DEFINE q == work[c]
           draft == Head(q)
<1>1. q \in Seq(Draft) /\ q # <<>> /\ Queued(q)
  BY DEF DInv, TypeOK, QueuesProper, AppendNext
<1>2. draft = q[1] /\ 1 \in DOMAIN q /\ draft \in Draft
  BY <1>1
<1>3. /\ DraftAllowed(draft)
      /\ draft.to = "states" =>
            /\ 1 = Len(q)
            /\ \A d \in draft.row.kept :
                  d \in docs \/ \E j \in DOMAIN q : q[j].to = "docs" /\ q[j].row = d
  BY <1>1, <1>2 DEF Queued
<1>4. DOMAIN q = 1 .. Len(q)
  BY <1>1
<1>5. /\ Fits(draft)
      /\ docs' = IF draft.to = "docs" THEN docs \union {draft.row} ELSE docs
      /\ states' = Logged(states, draft, "states")
      /\ feature' = Logged(feature, draft, "feature") /\ class' = class
  BY DEF AppendNext
<1> HIDE DEF q, draft
<1>6. CASE draft.to = "docs"
  <2>1. draft.row \in Document /\ DocAllowed(draft.row)
    BY <1>2, <1>3, <1>6 DEF Draft, DraftAllowed
  <2>2. \A d \in docs : d.type = draft.row.type => d = draft.row
    BY <1>5, <1>6 DEF Fits
  <2>3. Single(docs \union {draft.row})
    BY <2>2 DEF DInv, DocsGated, Single
  <2>4. states' = states /\ feature' = feature /\ docs' = docs \union {draft.row}
    BY <1>5, <1>6 DEF Logged
  <2>5. DocKept(draft.row)
    BY <1>5, <2>1, <2>3, <2>4 DEF DocKept
  <2> QED
    BY <2>1, <2>4, <2>5 DEF draft, q
<1>7. CASE draft.to = "states"
  <2>1. draft.row \in State /\ StateAllowed(draft.rev, draft.row)
    BY <1>2, <1>3, <1>7 DEF Draft, DraftAllowed
  <2>2. docs' = docs /\ feature' = feature
    BY <1>5, <1>7 DEF Logged
  <2>3. draft.row.kept \subseteq docs
    <3>1. \A j \in DOMAIN q : j = 1
      BY <1>3, <1>4, <1>7
    <3>2. q[1].to # "docs"
      BY <1>2, <1>7
    <3> QED
      BY <1>3, <1>7, <3>1, <3>2
  <2>4. CASE draft.rev = Len(states) + 1
    <3>1. states' = Append(states, draft.row)
      BY <1>5, <1>7, <2>4 DEF Logged
    <3>2. StateRecorded(draft.row)
      BY <1>5, <2>1, <2>2, <2>3, <2>4, <3>1 DEF StateRecorded
    <3> QED
      BY <1>7, <2>1, <3>2 DEF draft, q
  <2>5. CASE draft.rev # Len(states) + 1
    <3>1. states' = states
      BY <1>5, <1>7, <2>5 DEF Logged
    <3> QED
      BY <1>5, <1>7, <2>2, <3>1 DEF draft, q
  <2> QED
    BY <2>4, <2>5
<1>8. CASE draft.to = "feature"
  <2>1. draft.row \in FeatureRow /\ FeatureAllowed(draft.rev, draft.row)
    BY <1>2, <1>3, <1>8 DEF Draft, DraftAllowed
  <2>2. docs' = docs /\ states' = states
    BY <1>5, <1>8 DEF Logged
  <2>3. CASE draft.rev = Len(feature) + 1
    <3>1. feature' = Append(feature, draft.row)
      BY <1>5, <1>8, <2>3 DEF Logged
    <3>2. StageRecorded(draft.row)
      BY <1>5, <2>1, <2>2, <2>3, <3>1 DEF StageRecorded
    <3> QED
      BY <1>8, <2>1, <3>2 DEF draft, q
  <2>4. CASE draft.rev # Len(feature) + 1
    <3>1. feature' = feature
      BY <1>5, <1>8, <2>4 DEF Logged
    <3> QED
      BY <1>5, <1>8, <2>2, <3>1 DEF draft, q
  <2> QED
    BY <2>3, <2>4
<1>9. draft.to \in {"docs", "states", "feature"}
  BY <1>2 DEF Draft
<1> QED
  BY <1>6, <1>7, <1>8, <1>9

LEMMA TailQueued ==
    ASSUME TypeOK, Grown, NEW q \in Seq(Draft), q # <<>>, Queued(q),
           Head(q).to = "docs" => Head(q).row \in docs'
    PROVE  Tail(q) \in Seq(Draft) /\ Queued(Tail(q))'
<1> DEFINE t == Tail(q)
<1>1. /\ t \in Seq(Draft) /\ Len(q) \in Nat \ {0} /\ Len(t) = Len(q) - 1 /\ Head(q) = q[1]
      /\ DOMAIN q = 1 .. Len(q) /\ DOMAIN t = 1 .. Len(q) - 1
      /\ \A i \in 1 .. Len(q) - 1 : t[i] = q[i + 1]
  OBVIOUS
<1> HIDE DEF t
<1>2. Queued(q)'
  BY QueueStays
<1>3. \A i \in DOMAIN t : i + 1 \in DOMAIN q /\ t[i] = q[i + 1]
  BY <1>1
<1>4. ASSUME NEW i \in DOMAIN t PROVE DraftAllowed(t[i])'
  BY <1>2, <1>3 DEF Queued
<1>5. ASSUME NEW i \in DOMAIN t, t[i].to = "states"
      PROVE  /\ i = Len(t)
             /\ \A d \in t[i].row.kept :
                   d \in docs' \/ \E j \in DOMAIN t : t[j].to = "docs" /\ t[j].row = d
  <2>1. q[i + 1].to = "states" /\ i + 1 \in DOMAIN q /\ t[i] = q[i + 1]
    BY <1>3, <1>5
  <2>2. /\ i + 1 = Len(q)
        /\ \A d \in t[i].row.kept :
              d \in docs' \/ \E j \in DOMAIN q : q[j].to = "docs" /\ q[j].row = d
    BY <1>2, <2>1 DEF Queued
  <2>3. i = Len(t)
    BY <1>1, <2>2
  <2>4. ASSUME NEW d, NEW j \in DOMAIN q, q[j].to = "docs" /\ q[j].row = d
        PROVE  d \in docs' \/ \E k \in DOMAIN t : t[k].to = "docs" /\ t[k].row = d
    <3>1. CASE j = 1
      BY <1>1, <2>4, <3>1
    <3>2. CASE j # 1
      <4>1. j - 1 \in DOMAIN t /\ (j - 1) + 1 = j
        BY <1>1, <3>2
      <4>2. t[j - 1] = q[j]
        BY <1>3, <4>1
      <4> QED
        BY <2>4, <4>1, <4>2
    <3> QED
      BY <3>1, <3>2
  <2> QED
    BY <2>2, <2>3, <2>4
<1> QED
  BY <1>1, <1>4, <1>5 DEF Queued, t

LEMMA AppendKeepsDInv ==
    ASSUME DInv, NEW c \in Clients, AppendNext(c)
    PROVE  DInv'
<1>1. Grown /\ LogsProper'
  <2>1. CASE \E d \in Document : DocKept(d)
    BY <2>1, DocStep
  <2>2. CASE \E s \in State : StateRecorded(s)
    BY <2>2, StateStep
  <2>3. CASE \E row \in FeatureRow : StageRecorded(row)
    BY <2>3, StageStep
  <2>4. CASE UNCHANGED <<class, docs, states, feature>>
    BY <2>4, LogsKept DEF LogsProper, DInv, TypeOK
  <2> QED
    BY <2>1, <2>2, <2>3, <2>4, AppendLogs
<1>2. /\ work \in [Clients -> Seq(Draft)] /\ work[c] # <<>>
      /\ work' = [work EXCEPT ![c] = Tail(@)] /\ UNCHANGED <<class, project, deaths>>
      /\ \A b \in Clients : Queued(work[b])
  BY DEF DInv, TypeOK, AppendNext, QueuesProper
<1>3. work[c] \in Seq(Draft) /\ TypeOK
  BY <1>2 DEF DInv
<1>4. ASSUME NEW q, q = work[c] PROVE Tail(q) \in Seq(Draft) /\ Queued(Tail(q))'
  <2>1. Head(q).to = "docs" => Head(q).row \in docs'
    BY <1>4, AppendLogs
  <2> QED
    BY <1>1, <1>2, <1>3, <1>4, <2>1, TailQueued
<1>5. work' \in [Clients -> Seq(Draft)]
  BY <1>2, <1>4
<1>6. ASSUME NEW b \in Clients, NEW t, t = work'[b] PROVE Queued(t)'
  <2>1. CASE b = c
    <3>1. t = Tail(work[c])
      BY <1>2, <1>6, <2>1
    <3> QED
      BY <1>4, <3>1
  <2>2. CASE b # c
    <3>1. t = work[b] /\ Queued(work[b])
      BY <1>2, <1>6, <2>2
    <3>2. Queued(t)
      BY <3>1
    <3> QED
      BY <1>1, <1>3, <3>2, QueueStays
  <2> QED
    BY <2>1, <2>2
<1>7. TypeOK'
  BY <1>1, <1>2, <1>5 DEF LogsProper, DInv, TypeOK
<1> QED
  BY <1>1, <1>6, <1>7 DEF LogsProper, DInv, QueuesProper

-----------------------------------------------------------------------------
(* The invariant holds at the start and is kept by every step.             *)
LEMMA InitDInv == Init => DInv
<1> SUFFICES ASSUME Init PROVE DInv
  OBVIOUS
<1>1. /\ class \in Classes /\ docs = {} /\ states = <<>> /\ feature = <<>>
      /\ project = [rev |-> 1, ready |-> TRUE] /\ work = [c \in Clients |-> <<>>]
      /\ deaths = 0
  BY DEF Init
<1>2. /\ <<>> \in Seq(State) /\ <<>> \in Seq(FeatureRow) /\ <<>> \in Seq(Draft)
      /\ Len(<<>>) = 0 /\ DOMAIN <<>> = {}
  OBVIOUS
<1>3. TypeOK
  <2>1. project \in [rev : 1 .. MaxRevision, ready : BOOLEAN]
    BY <1>1, Constants
  <2>2. work \in [Clients -> Seq(Draft)] /\ deaths \in 0 .. MaxDeaths
    BY <1>1, <1>2, Constants
  <2> QED
    BY <1>1, <1>2, <2>1, <2>2 DEF TypeOK
<1>4. DocsGated
  BY <1>1 DEF DocsGated, Single
<1>5. StatesProper /\ StatesClimb /\ FeatureProper
  BY <1>1, <1>2 DEF StatesProper, StatesClimb, FeatureProper
<1>6. QueuesProper
  BY <1>1, <1>2 DEF QueuesProper, Queued
<1> QED
  BY <1>3, <1>4, <1>5, <1>6 DEF DInv

LEMMA DesignCommandKeeps ==
    ASSUME DInv, NEW c \in Clients, NEW command \in {"prepare", "approve"},
           DesignCommand(c, command)
    PROVE  DInv'
<1>1. PICK a \in Inputs, g \in Graphs :
         /\ ApprovalsAllowed(command, a)
         /\ Started => ExactReplay(g, a)
         /\ Preparable(g, Stored(g), a)
         /\ work' = [work EXCEPT ![c] = DesignDrafts(command, g, a)]
  BY DEF DesignCommand
<1>2. Replays(states) /\ UNCHANGED <<class, docs, states, feature, project, deaths>>
  BY DEF DesignCommand, HistoryVerifies
<1>3. Chosen(command, a, g)
  BY <1>1, <1>2 DEF Chosen
<1>4. DesignDrafts(command, g, a) \in Seq(Draft) /\ Queued(DesignDrafts(command, g, a))
  BY <1>3, DesignQueue
<1>5. deaths' \in 0 .. MaxDeaths
  BY <1>2 DEF DInv, TypeOK
<1> QED
  BY <1>1, <1>2, <1>4, <1>5, NewQueue

LEMMA FeatureCommandKeeps ==
    ASSUME DInv, NEW c \in Clients, NEW target \in Range(Stages), FeatureCommand(c, target)
    PROVE  DInv'
<1>1. /\ work' = [work EXCEPT ![c] = FeatureDrafts(target)]
      /\ UNCHANGED <<class, docs, states, feature, project, deaths>>
  BY DEF FeatureCommand
<1>2. FeatureDrafts(target) \in Seq(Draft) /\ Queued(FeatureDrafts(target))
  BY FeatureQueue
<1>3. deaths' \in 0 .. MaxDeaths
  BY <1>1 DEF DInv, TypeOK
<1> QED
  BY <1>1, <1>2, <1>3, NewQueue

LEMMA EndKeeps ==
    ASSUME DInv, NEW c \in Clients, Refused(c) \/ Die(c)
    PROVE  DInv'
<1>1. <<>> \in Seq(Draft) /\ Queued(<<>>)
  BY DEF Queued
<1>2. /\ work' = [work EXCEPT ![c] = <<>>]
      /\ UNCHANGED <<class, docs, states, feature, project>>
  BY DEF Refused, Die
<1>3. deaths' \in 0 .. MaxDeaths
  BY Constants DEF DInv, TypeOK, Refused, Die
<1> QED
  BY <1>1, <1>2, <1>3, NewQueue

LEMMA ProjectKeeps ==
    ASSUME DInv, UNCHANGED <<class, docs, states, feature, work, deaths>>,
           project' \in [rev : 1 .. MaxRevision, ready : BOOLEAN]
    PROVE  DInv'
<1>1. Grown /\ DocsGated' /\ StatesProper' /\ StatesClimb' /\ FeatureProper'
  BY LogsKept
<1>2. ASSUME NEW b \in Clients, NEW t, t = work'[b] PROVE Queued(t)'
  <2>1. Queued(t)
    BY <1>2 DEF DInv, QueuesProper
  <2> QED
    BY <1>1, <2>1, QueueStays DEF DInv
<1>3. QueuesProper'
  BY <1>2 DEF QueuesProper
<1>4. TypeOK'
  BY DEF DInv, TypeOK
<1> QED
  BY <1>1, <1>3, <1>4 DEF DInv

LEMMA NextDInv == DInv /\ [Next]_vars => DInv'
<1> SUFFICES ASSUME DInv, [Next]_vars PROVE DInv'
  OBVIOUS
<1>1. ASSUME NEW c \in Clients, Prepare(c) \/ Approve(c) PROVE DInv'
  BY <1>1, DesignCommandKeeps DEF Prepare, Approve
<1>2. ASSUME NEW c \in Clients, FeatureStep(c) PROVE DInv'
  BY <1>2, FeatureCommandKeeps DEF FeatureStep
<1>3. ASSUME NEW c \in Clients, AppendNext(c) PROVE DInv'
  BY <1>3, AppendKeepsDInv
<1>4. ASSUME NEW c \in Clients, Refused(c) \/ Die(c) PROVE DInv'
  BY <1>4, EndKeeps
<1>5. CASE Reanalyze
  <2>1. project' \in [rev : 1 .. MaxRevision, ready : BOOLEAN]
    <3>1. project.rev \in 1 .. MaxRevision /\ project.rev < MaxRevision /\ MaxRevision \in Nat
      BY <1>5, Constants DEF Reanalyze, DInv, TypeOK
    <3> QED
      BY <1>5, <3>1 DEF Reanalyze
  <2> QED
    BY <1>5, <2>1, ProjectKeeps DEF Reanalyze
<1>6. CASE ProjectReady
  <2>1. project' \in [rev : 1 .. MaxRevision, ready : BOOLEAN]
    BY <1>6 DEF ProjectReady, DInv, TypeOK
  <2> QED
    BY <1>6, <2>1, ProjectKeeps DEF ProjectReady
<1>7. CASE UNCHANGED vars
  <2>1. project' \in [rev : 1 .. MaxRevision, ready : BOOLEAN]
    BY <1>7 DEF vars, DInv, TypeOK
  <2> QED
    BY <1>7, <2>1, ProjectKeeps DEF vars
<1> QED
  BY <1>1, <1>2, <1>3, <1>4, <1>5, <1>6, <1>7 DEF Next

(* Every behaviour keeps the invariant: no draft in a queue is ever one    *)
(* that must not be recorded.                                              *)
THEOREM DesignInvariant == Safety => []DInv
BY InitDInv, NextDInv, PTL DEF Safety

(* Every variable keeps its type: no revision, approval or document that   *)
(* the commands decide on is outside the contracts of the artifacts.       *)
THEOREM DesignTypes == Spec => []TypeOK
<1>1. DInv => TypeOK
  BY DEF DInv
<1> QED
  BY <1>1, DesignInvariant, PTL DEF Spec

(* The stages of a feature form one chain over one base, however its       *)
(* commands interleave.                                                    *)
THEOREM FeatureChains == Spec => []FeatureChainReplays
BY DInvChain, DesignInvariant, PTL DEF Spec

(* As long as the final approval document is not stored, every design      *)
(* command finds a history that it can replay.                             *)
THEOREM HistoriesReplay == Spec => []HistoryReplaysUntilFinal
BY DInvReplays, DesignInvariant, PTL DEF Spec

(* No document reaches the store before its gate.                          *)
THEOREM GatesHold == Spec => []GateBeforePersist
BY DInvGates, DesignInvariant, PTL DEF Spec

(* A design is found ready only when it has earned it.                     *)
THEOREM ReadyEarned == Spec => []ReadyIsEarned
BY DInvReady, DesignInvariant, PTL DEF Spec

-----------------------------------------------------------------------------
(* The refinement: every append is a step of the ladder or none.           *)
LEMMA DocClimbs ==
    ASSUME DInv, NEW d, DocKept(d)
    PROVE  [Ladder!Next]_(Ladder!vars)
<1>1. /\ class \in Classes /\ class' = class /\ states' = states /\ DocAllowed(d)
      /\ d \in Document /\ docs' = docs \union {d}
  BY DEF DInv, TypeOK, DocKept
<1>2. ApprovedLevel' = ApprovedLevel /\ Rung' = Rung
  BY <1>1 DEF ApprovedLevel, Rung, Started, Latest
<1>3. TypesOf(docs)' = TypesOf(docs) \union {d.type}
  BY <1>1 DEF TypesOf
<1>4. ApprovedLevel \in Levels /\ d.type \in Types
  BY <1>1, ClassLevels DEF Document
<1>5. CASE ApprovedLevel = "NOT_APPLICABLE"
  <2>1. d.type = "design-brief" /\ Required(ApprovedLevel) = {"design-brief"}
    BY <1>1, <1>4, <1>5, LevelTypes DEF DocAllowed
  <2>2. Ladder!Keep(d.type)
    BY <1>2, <1>3, <1>5, <2>1 DEF Ladder!Keep, Ladder!Admitted, Ladder!Inapplicable
  <2> QED
    BY <1>4, <2>2 DEF Ladder!Next
<1>6. CASE ApprovedLevel # "NOT_APPLICABLE"
  <2>1. /\ Started /\ Rank(Latest.state) >= 3 /\ d \in Latest.commits
        /\ d.type = "design-approval" => Rank(Latest.state) >= 4
    BY <1>1, <1>6, GatedDocument DEF DInv
  <2>2. /\ Latest \in State /\ Shaped(Latest) /\ ~Bootstrapped(Latest)
        /\ Latest.state \in StateNames /\ Latest.kept \subseteq docs
    BY <2>1, LatestFacts
  <2>3. Rung = Rank(Latest.state) /\ Rung \in 3 .. 5
    BY <2>1, <2>2, Ranks DEF Rung
  <2>4. d.type \in Required(ApprovedLevel)
    <3>1. TypesOf(Latest.commits) = Required(ApprovedLevel)
      BY <1>1, <2>2, FullShape
    <3>2. d.type \in TypesOf(Latest.commits)
      BY <2>1 DEF TypesOf
    <3> QED
      BY <3>1, <3>2
  <2>5. CASE Rung = 3
    <3>1. d.type \in Ladder!NonFinalTypes
      BY <2>1, <2>3, <2>4, <2>5 DEF Ladder!NonFinalTypes
    <3>2. Ladder!Keep(d.type)
      BY <1>2, <1>3, <1>6, <2>5, <3>1 DEF Ladder!Keep, Ladder!Admitted, Ladder!Inapplicable
    <3> QED
      BY <1>4, <3>2 DEF Ladder!Next
  <2>6. CASE Rung = 4
    <3>1. Ladder!Keep(d.type)
      BY <1>2, <1>3, <1>6, <2>4, <2>6 DEF Ladder!Keep, Ladder!Admitted, Ladder!Inapplicable
    <3> QED
      BY <1>4, <3>1 DEF Ladder!Next
  <2>7. CASE Rung = 5
    <3>1. Latest.state = "APPROVED"
      BY <1>1, <1>6, <2>2, <2>3, <2>7, Ranks, GateShape
    <3>2. Latest.kept = Latest.commits
      BY <1>1, <1>6, <2>2, <3>1, GateShape
    <3>3. docs' = docs
      BY <1>1, <2>1, <2>2, <3>2
    <3> QED
      BY <1>2, <3>3 DEF Ladder!vars, TypesOf
  <2> QED
    BY <2>3, <2>5, <2>6, <2>7
<1> QED
  BY <1>5, <1>6

LEMMA StateClimbs ==
    ASSUME DInv, NEW s, StateRecorded(s)
    PROVE  [Ladder!Next]_(Ladder!vars)
<1>1. /\ class \in Classes /\ class' = class /\ docs' = docs /\ s \in State
      /\ StateAllowed(Len(states) + 1, s) /\ s.kept \subseteq docs
      /\ states \in Seq(State) /\ states' = Append(states, s)
  BY DEF DInv, TypeOK, StateRecorded
<1>2. ApprovedLevel' = ApprovedLevel /\ TypesOf(docs)' = TypesOf(docs)
  BY <1>1 DEF ApprovedLevel, TypesOf
<1>3. Rung' = Rank(s.state)
  <2>1. states' # <<>> /\ states'[Len(states')] = s
    BY <1>1
  <2> QED
    BY <2>1 DEF Rung, Started, Latest
<1>4. Shaped(s) /\ s.state \in StateNames /\ ApprovedLevel \in Levels
  BY <1>1, ClassLevels DEF StateAllowed, State
<1>5. CASE ~Started
  <2>1. Rung = 0 /\ IsRoot(s)
    BY <1>1, <1>5 DEF Rung, StateAllowed, Started
  <2>2. CASE Bootstrapped(s)
    <3>1. Rung' = 0
      BY <1>3, <2>2 DEF Bootstrapped, Rank
    <3> QED
      BY <1>2, <2>1, <3>1 DEF Ladder!vars
  <2>3. CASE s.state = "DIRECTION_PENDING"
    <3>1. Rung' = 1
      BY <1>3, <2>3 DEF Rank
    <3>2. ApprovedLevel # "NOT_APPLICABLE"
      BY <1>1, <1>4, <2>3, GateShape DEF Bootstrapped
    <3>3. Ladder!Climb
      BY <1>2, <2>1, <3>1, <3>2 DEF Ladder!Climb, Ladder!Inapplicable
    <3> QED
      BY <3>3 DEF Ladder!Next
  <2>4. CASE s.state = "NOT_APPLICABLE"
    <3>1. Rung' = 5
      BY <1>3, <2>4 DEF Rank
    <3>2. ApprovedLevel = "NOT_APPLICABLE"
      BY <1>1, <1>4, <2>4, GateShape DEF Bootstrapped
    <3>3. s.kept = s.commits /\ TypesOf(s.commits) = {"design-brief"}
      <4>1. ~Bootstrapped(s)
        BY <2>4 DEF Bootstrapped
      <4>2. s.kept = s.commits /\ TypesOf(s.commits) = Required(ApprovedLevel)
        BY <1>1, <1>4, <3>2, <4>1, FullShape
      <4>3. Required(ApprovedLevel) = {"design-brief"}
        BY <1>4, <3>2, LevelTypes
      <4> QED
        BY <4>2, <4>3
    <3>4. TypesOf(docs) = Required(ApprovedLevel)
      <4>1. Required(ApprovedLevel) = {"design-brief"}
        BY <1>4, <3>2, LevelTypes
      <4>2. TypesOf(docs) \subseteq {"design-brief"}
        BY <3>2 DEF DInv, DocsGated, DocAllowed, TypesOf
      <4>3. "design-brief" \in TypesOf(docs)
        BY <1>1, <3>3 DEF TypesOf
      <4> QED
        BY <4>1, <4>2, <4>3
    <3>5. Ladder!Finish
      BY <1>2, <3>1, <3>2, <3>4 DEF Ladder!Finish, Ladder!Inapplicable
    <3> QED
      BY <3>5 DEF Ladder!Next
  <2> QED
    BY <2>1, <2>2, <2>3, <2>4 DEF IsRoot, Bootstrapped
<1>6. CASE Started
  <2>1. /\ Rank(Latest.state) \in 0 .. 4 /\ Rank(s.state) \in 1 .. 5
        /\ \/ Follows(s, Latest) /\ Rank(s.state) = Rank(Latest.state) + 1
           \/ Repeats(s, Latest) /\ Rank(s.state) = 4 /\ Rank(Latest.state) = 4
        /\ ~Bootstrapped(s)
    BY <1>1, <1>6, SuccessorRank
  <2>2. Rung = Rank(Latest.state)
    BY <1>6 DEF Rung
  <2>3. CASE Rank(s.state) = Rank(Latest.state)
    BY <1>2, <1>3, <2>2, <2>3 DEF Ladder!vars
  <2>4. CASE Rank(s.state) = Rank(Latest.state) + 1
    <3>1. ApprovedLevel # "NOT_APPLICABLE"
      <4>1. /\ Latest \in State /\ Shaped(Latest) /\ Latest.state \in StateNames
        BY <1>6, LatestFacts
      <4>2. CASE Bootstrapped(Latest)
        BY <1>1, <4>1, <4>2, BootShape, ClassLevels
      <4>3. CASE ~Bootstrapped(Latest)
        <5>1. Latest.state # "NOT_APPLICABLE"
          BY <2>1, <4>1, Ranks
        <5> QED
          BY <1>1, <4>1, <4>3, <5>1, GateShape
      <4> QED
        BY <4>2, <4>3
    <3>2. Rung = 3 => Ladder!NonFinalTypes \subseteq TypesOf(docs)
      <4>1. Rung = 3 => s.state = "FINAL_APPROVAL_PENDING"
        BY <1>4, <2>1, <2>2, <2>4, Ranks
      <4>2. Rung = 3 => NonFinal(ApprovedLevel) \subseteq TypesOf(s.kept)
        BY <1>1, <1>4, <2>1, <3>1, <4>1, GateShape
      <4>3. TypesOf(s.kept) \subseteq TypesOf(docs)
        BY <1>1 DEF TypesOf
      <4> QED
        BY <4>2, <4>3 DEF Ladder!NonFinalTypes, NonFinal
    <3>3. Rung = 4 => Required(ApprovedLevel) \subseteq TypesOf(docs)
      <4>1. Rung = 4 => s.state \in {"APPROVED", "NOT_APPLICABLE"}
        BY <1>4, <2>1, <2>2, <2>4, Ranks
      <4>2. Rung = 4 => s.kept = s.commits
        BY <1>1, <1>4, <2>1, <3>1, <4>1, GateShape
      <4>3. TypesOf(s.commits) = Required(ApprovedLevel)
        BY <1>1, <1>4, <2>1, FullShape
      <4>4. TypesOf(s.kept) \subseteq TypesOf(docs)
        BY <1>1 DEF TypesOf
      <4> QED
        BY <4>2, <4>3, <4>4
    <3>4. Ladder!Climb
      BY <1>2, <1>3, <2>1, <2>2, <2>4, <3>1, <3>2, <3>3
      DEF Ladder!Climb, Ladder!Inapplicable
    <3> QED
      BY <3>4 DEF Ladder!Next
  <2> QED
    BY <2>1, <2>3, <2>4
<1> QED
  BY <1>5, <1>6

LEMMA StepClimbs == DInv /\ [Next]_vars => [Ladder!Next]_(Ladder!vars)
<1> SUFFICES ASSUME DInv, [Next]_vars PROVE [Ladder!Next]_(Ladder!vars)
  OBVIOUS
<1>1. ASSUME UNCHANGED <<class, docs, states>> PROVE [Ladder!Next]_(Ladder!vars)
  <2>1. ApprovedLevel' = ApprovedLevel
    BY <1>1 DEF ApprovedLevel
  <2>2. Rung' = Rung
    BY <1>1 DEF Rung, Started, Latest
  <2>3. TypesOf(docs)' = TypesOf(docs)
    BY <1>1 DEF TypesOf
  <2> QED
    BY <2>1, <2>2, <2>3 DEF Ladder!vars
<1>2. ASSUME NEW c \in Clients, AppendNext(c) PROVE [Ladder!Next]_(Ladder!vars)
  <2>1. CASE \E d \in Document : DocKept(d)
    BY <2>1, DocClimbs
  <2>2. CASE \E s \in State : StateRecorded(s)
    BY <2>2, StateClimbs
  <2>3. CASE \E row \in FeatureRow : StageRecorded(row)
    BY <1>1, <2>3 DEF StageRecorded
  <2>4. CASE UNCHANGED <<class, docs, states, feature>>
    BY <1>1, <2>4
  <2> QED
    BY <1>2, <2>1, <2>2, <2>3, <2>4, AppendLogs
<1>3. CASE ~\E c \in Clients : AppendNext(c)
  <2>1. UNCHANGED <<class, docs, states>>
    BY <1>3 DEF Next, vars, Prepare, Approve, DesignCommand, FeatureStep, FeatureCommand,
                Refused, Die, Reanalyze, ProjectReady
  <2> QED
    BY <1>1, <2>1
<1> QED
  BY <1>2, <1>3

(* The pipeline implements the ladder, for every client, class, graph and  *)
(* approval record: gates are passed one by one, and the store admits a    *)
(* document only on its rung.                                              *)
THEOREM LadderImplemented == Spec => ImplementsLadder
<1>1. Init => Ladder!Init
  <2> SUFFICES ASSUME Init PROVE Ladder!Init
    OBVIOUS
  <2>1. ApprovedLevel \in Levels
    BY ClassLevels DEF Init
  <2>2. Rung = 0 /\ TypesOf(docs) = {}
    BY DEF Init, Rung, Started, TypesOf
  <2> QED
    BY <2>1, <2>2 DEF Ladder!Init
<1> QED
  BY <1>1, StepClimbs, DesignInvariant, PTL DEF Spec, Safety, ImplementsLadder, Ladder!Spec
=============================================================================
