------------------------ MODULE ConversationProofs ------------------------
(***************************************************************************)
(* Proofs about Conversation: merging loses, repeats and misattributes     *)
(* nothing and joins as much as it may, roles follow the speakers, and a   *)
(* verdict has its reasons, whatever was said and however long it took.    *)
(***************************************************************************)
EXTENDS Conversation, SequenceTheorems, FiniteSetTheorems, WellFoundedInduction, TLAPS

(***************************************************************************)
(* The inductive invariant                                                 *)
(***************************************************************************)

\* A turn holds utterances of its speaker that it covers, and starts with the first of them.
Spans(t, hs) ==
    /\ t.said \subseteq {i \in DOMAIN hs : Audible(hs[i])}
    /\ \A i \in t.said : t.speaker = hs[i].speaker /\ EndOf(hs[i]) <= t.end
    /\ \E f \in t.said : t.start = hs[f].start /\ \A j \in t.said : f <= j

TurnsSpan == \A k \in DOMAIN turns : Spans(turns[k], heard)

TurnsInOrder ==
    \A k, l \in DOMAIN turns : k < l => \A i \in turns[k].said, j \in turns[l].said : i < j

NothingLost == ~Forgotten => AudibleAt \subseteq UNION {turns[k].said : k \in DOMAIN turns}

TimesRise ==
    \A i, j \in DOMAIN heard :
        i < j /\ heard[j].start # NoTime => heard[i].start <= heard[j].start

Merging == TurnsSpan /\ TurnsInOrder /\ NothingLost /\ TimesRise

TurnsFit ==
    \A k \in DOMAIN turns : turns[k].size <= MaxChars \/ \E i \in Nat : turns[k].said = {i}

\* What keeps the turn of utterance f, the first of its turn, apart from the turn t before.
Apart(t, f) ==
    t.speaker = heard[f].speaker =>
        heard[f].start - t.end > MaxGap \/ t.size + 1 + heard[f].size > MaxChars

SplitsFounded ==
    \A k \in 1..(Len(turns) - 1) : \A f \in turns[k + 1].said :
        (\A j \in turns[k + 1].said : f <= j) => Apart(turns[k], f)

NoRolesYet ==
    stage \in {"listening", "spoken"} => \A k \in DOMAIN turns : turns[k].role = "unknown"

IInv ==
    TypeOK /\ Merging /\ TurnsFit /\ SplitsFounded
    /\ NoRolesYet /\ RolesFollowSpeakers /\ VerdictIsFounded

\* Every non-empty set of natural numbers has a least one (from the well-foundedness of <).
LEMMA LeastNat ==
    ASSUME NEW S \in SUBSET Nat, S # {}
    PROVE  \E m \in S : \A n \in S : m <= n
<1> DEFINE R == OpToRel(<, Nat)
<1>1. IsWellFoundedOn(R, Nat) BY NatLessThanWellFounded
<1>2. R = {ss \in Nat \X Nat : ss[1] < ss[2]} BY DEF OpToRel
<1> HIDE DEF R
<1>3. \E x \in S : \A y \in S : ~(<<y, x>> \in R) BY <1>1, WFMin
<1>4. PICK x \in S : \A y \in S : <<y, x>> \notin R BY <1>3
<1>5. \A y \in S : ~(y < x) BY <1>2, <1>4
<1> QED BY <1>5

-----------------------------------------------------------------------------
(***************************************************************************)
(* Merging                                                                 *)
(***************************************************************************)

LEMMA NewTurnFields ==
    ASSUME NEW u \in Utterance, Audible(u), NEW i \in Nat \ {0}
    PROVE  LET t == NewTurn(u, i) IN
           /\ t \in Turn
           /\ t.speaker = u.speaker /\ t.start = u.start /\ t.end = EndOf(u)
           /\ t.size = u.size /\ t.said = {i} /\ t.role = "unknown"
<1>1. u.start \in Nat /\ EndOf(u) \in Nat BY DEF Audible, Utterance, EndOf, NoTime
<1> QED BY <1>1 DEF NewTurn, Turn, Role, Utterance

LEMMA JoinedFields ==
    ASSUME NEW t \in Turn, NEW u \in Utterance, Audible(u), NEW i \in Nat \ {0},
           CanMerge(t, u)
    PROVE  LET s == Joined(t, u, i) IN
           /\ s \in Turn
           /\ s.speaker = t.speaker /\ s.start = t.start /\ s.role = t.role
           /\ s.end >= t.end /\ s.end >= EndOf(u)
           /\ s.size <= MaxChars /\ s.said = t.said \cup {i}
<1> DEFINE s == Joined(t, u, i)
<1>1. u.start \in Nat /\ EndOf(u) \in Nat BY DEF Audible, Utterance, EndOf, NoTime
<1> DEFINE end == IF EndOf(u) > t.end THEN EndOf(u) ELSE t.end
           size == t.size + u.size + (IF t.closes \/ u.opens THEN 0 ELSE 1)
           cues == t.cues \cup u.cues
           said == t.said \cup {i}
<1>a. s = [t EXCEPT !.size = size, !.end = end, !.closes = u.closes, !.cues = cues,
                    !.said = said]
  BY DEF Joined
<1> HIDE DEF s, end, size, cues, said
<1>2. /\ s.speaker = t.speaker /\ s.start = t.start /\ s.role = t.role
      /\ s.said = said /\ s.closes = u.closes /\ s.cues = cues
      /\ s.end = end /\ s.size = size
      /\ s = [role |-> t.role, speaker |-> t.speaker, start |-> t.start, end |-> end,
              size |-> size, closes |-> u.closes, cues |-> cues, said |-> said]
  BY <1>a DEF Turn
<1>3. t.end \in Nat /\ t.size \in Nat /\ u.size \in Nat BY DEF Turn, Utterance
<1>4. MaxChars \in Nat BY LimitAssumption
<1>5. end \in Nat /\ end >= t.end /\ end >= EndOf(u) BY <1>1, <1>3 DEF end
<1>6. size \in Nat /\ size <= MaxChars BY <1>3, <1>4 DEF CanMerge, size
<1>7. cues \in SUBSET Cue /\ said \in SUBSET (Nat \ {0}) BY DEF Turn, Utterance, cues, said
<1>8. s \in Turn BY <1>2, <1>5, <1>6, <1>7 DEF Turn, Utterance
<1> QED BY <1>2, <1>5, <1>6, <1>8 DEF s, said

LEMMA JoinedSaid ==
    ASSUME NEW t \in Turn, NEW u \in Utterance, Audible(u), NEW i \in Nat \ {0},
           CanMerge(t, u)
    PROVE  Joined(t, u, i).said = t.said \cup {i}
<1> DEFINE s == Joined(t, u, i)
<1>1. s.said = t.said \cup {i} BY JoinedFields
<1> QED BY <1>1

\* One round of the loop: the utterance is passed over, joins the last turn or opens one.
LEMMA HearMoves ==
    ASSUME TypeOK, NEW u \in Utterances, Hear(u)
    PROVE  /\ u \in Utterance
           /\ heard' \in Seq(Utterances) /\ Len(heard') = Len(heard) + 1
           /\ DOMAIN heard = 1..Len(heard) /\ DOMAIN heard' = 1..Len(heard')
           /\ heard'[Len(heard) + 1] = u
           /\ \A i \in 1..Len(heard) : heard'[i] = heard[i]
           /\ Len(heard) \in Nat /\ Len(turns) \in Nat
           /\ DOMAIN turns = 1..Len(turns) /\ DOMAIN turns' = 1..Len(turns')
           /\ \/ ~Audible(u) /\ turns' = turns
              \/ /\ Audible(u) /\ Len(turns) > 0 /\ CanMerge(turns[Len(turns)], u)
                 /\ Len(turns') = Len(turns) /\ turns' \in Seq(Turn)
                 /\ turns'[Len(turns)] = Joined(turns[Len(turns)], u, Len(heard) + 1)
                 /\ \A k \in 1..Len(turns) : k # Len(turns) => turns'[k] = turns[k]
              \/ /\ Audible(u)
                 /\ Len(turns) > 0 => ~CanMerge(turns[Len(turns)], u)
                 /\ Len(turns') = Len(turns) + 1 /\ turns' \in Seq(Turn)
                 /\ turns'[Len(turns) + 1] = NewTurn(u, Len(heard) + 1)
                 /\ \A k \in 1..Len(turns) : turns'[k] = turns[k]
<1> DEFINE n == Len(turns)
           i == Len(heard) + 1
<1>1. u \in Utterance BY UtteranceAssumption
<1>2. heard \in Seq(Utterances) /\ turns \in Seq(Turn) BY DEF TypeOK
<1>3. Len(heard) \in Nat /\ DOMAIN heard = 1..Len(heard) BY <1>2, LenProperties
<1>4. n \in Nat /\ DOMAIN turns = 1..n BY <1>2, LenProperties
<1>5. heard' = Append(heard, u) BY DEF Hear
<1>6. /\ heard' \in Seq(Utterances) /\ Len(heard') = Len(heard) + 1
      /\ heard'[i] = u /\ \A j \in 1..Len(heard) : heard'[j] = heard[j]
  BY <1>2, <1>3, <1>5, AppendProperties
<1>7. DOMAIN heard' = 1..Len(heard') BY <1>6, LenProperties
<1>8. i \in Nat \ {0} BY <1>3
<1>9. CASE ~Audible(u)
  <2>1. turns' = turns BY <1>9 DEF Hear
  <2> QED BY <1>1, <1>3, <1>4, <1>6, <1>7, <1>9, <2>1
<1>10. CASE Audible(u) /\ n > 0 /\ CanMerge(turns[n], u)
  <2> DEFINE s == Joined(turns[n], u, i)
  <2>1. turns' = [turns EXCEPT ![n] = s] BY <1>10 DEF Hear
  <2>2. n \in 1..n BY <1>4, <1>10
  <2>3. turns[n] \in Turn BY <1>2, <2>2, ElementOfSeq
  <2>4. s \in Turn BY <1>1, <1>8, <1>10, <2>3, JoinedFields
  <2> HIDE DEF s
  <2>5. /\ turns' \in Seq(Turn) /\ Len(turns') = n
        /\ \A k \in 1..n : turns'[k] = IF k = n THEN s ELSE turns[k]
    BY <1>2, <2>1, <2>2, <2>4, ExceptSeq
  <2>6. DOMAIN turns' = 1..Len(turns') BY <2>5, LenProperties
  <2>7. turns'[n] = Joined(turns[n], u, i) BY <2>2, <2>5 DEF s
  <2> QED BY <1>1, <1>3, <1>4, <1>6, <1>7, <1>10, <2>5, <2>6, <2>7
<1>11. CASE Audible(u) /\ ~(n > 0 /\ CanMerge(turns[n], u))
  <2> DEFINE t == NewTurn(u, i)
  <2>1. turns' = Append(turns, t) BY <1>11 DEF Hear
  <2>2. t \in Turn BY <1>1, <1>8, <1>11, NewTurnFields
  <2> HIDE DEF t
  <2>3. /\ turns' \in Seq(Turn) /\ Len(turns') = n + 1 /\ turns'[n + 1] = t
        /\ \A k \in 1..n : turns'[k] = turns[k]
    BY <1>2, <1>4, <2>1, <2>2, AppendProperties
  <2>4. DOMAIN turns' = 1..Len(turns') BY <2>3, LenProperties
  <2>5. turns'[n + 1] = NewTurn(u, i) BY <2>3 DEF t
  <2> QED BY <1>1, <1>3, <1>4, <1>6, <1>7, <1>11, <2>3, <2>4, <2>5
<1> QED BY <1>9, <1>10, <1>11

LEMMA HearTyped ==
    ASSUME TypeOK, NEW u \in Utterances, Hear(u)
    PROVE  TypeOK'
<1>1. turns' \in Seq(Turn) BY HearMoves DEF TypeOK
<1>2. heard' \in Seq(Utterances) BY HearMoves
<1> QED BY <1>1, <1>2 DEF TypeOK, Hear

\* A turn that stays covers what it covered: utterances are only added.
LEMMA StillSpans ==
    ASSUME TypeOK, NEW u \in Utterances, Hear(u), NEW t \in Turn, Spans(t, heard)
    PROVE  Spans(t, heard')
<1>1. t.said \subseteq 1..Len(heard) BY HearMoves DEF Spans, AudibleAt
<1>2. \A i \in t.said : heard'[i] = heard[i] BY <1>1, HearMoves
<1>3. t.said \subseteq DOMAIN heard' BY <1>1, HearMoves
<1>4. t.said \subseteq {i \in DOMAIN heard' : Audible(heard'[i])} BY <1>2, <1>3 DEF Spans
<1> QED BY <1>2, <1>4 DEF Spans

LEMMA TimesStillRise ==
    ASSUME TypeOK, TimesRise, NEW u \in Utterances, Hear(u)
    PROVE  TimesRise'
<1> SUFFICES ASSUME NEW i \in DOMAIN heard', NEW j \in DOMAIN heard', i < j,
                    heard'[j].start # NoTime
             PROVE  heard'[i].start <= heard'[j].start
  BY DEF TimesRise
<1>1. i \in 1..Len(heard) /\ heard'[i] = heard[i] BY HearMoves
<1>2. CASE j \in 1..Len(heard) BY <1>1, <1>2, HearMoves DEF TimesRise
<1>3. CASE j = Len(heard) + 1
  <2>1. heard'[j] = u BY <1>3, HearMoves
  <2> QED BY <1>1, <2>1 DEF Hear
<1> QED BY <1>2, <1>3, HearMoves

LEMMA HearSpans ==
    ASSUME TypeOK, TurnsSpan, NEW u \in Utterances, Hear(u)
    PROVE  TurnsSpan'
<1> DEFINE n == Len(turns)
           i == Len(heard) + 1
<1> SUFFICES ASSUME NEW k \in 1..Len(turns') PROVE Spans(turns'[k], heard')
  BY HearMoves DEF TurnsSpan
<1>1. \A l \in 1..n : turns[l] \in Turn /\ Spans(turns[l], heard)
  BY HearMoves, ElementOfSeq DEF TypeOK, TurnsSpan
<1>2. CASE k \in 1..n /\ turns'[k] = turns[k]
  <2>1. turns[k] \in Turn /\ Spans(turns[k], heard) BY <1>1, <1>2
  <2> QED BY <1>2, <2>1, StillSpans
<1>3. CASE Audible(u) /\ k = n /\ n > 0 /\ CanMerge(turns[n], u) /\ turns'[n] = Joined(turns[n], u, i)
  <2> DEFINE t == turns[n]
             s == Joined(t, u, i)
  <2>1. n \in 1..n BY <1>3, HearMoves
  <2>2. t \in Turn /\ Spans(t, heard) BY <1>1, <2>1
  <2>3. i \in Nat \ {0} BY HearMoves
  <2>4. /\ s.speaker = t.speaker /\ s.start = t.start
        /\ s.end >= t.end /\ s.end >= EndOf(u) /\ s.said = t.said \cup {i} /\ s \in Turn
    <3> HIDE DEF t, i
    <3>1. u \in Utterance BY HearMoves
    <3> QED BY <1>3, <2>2, <2>3, <3>1, JoinedFields DEF t
  <2>5. Spans(t, heard')
    <3> HIDE DEF t
    <3> QED BY <2>2, StillSpans
  <2>6. t.said \subseteq 1..Len(heard) BY <2>2, HearMoves DEF Spans, AudibleAt
  <2>7. heard'[i] = u /\ i \in DOMAIN heard' BY HearMoves
  <2>8. Audible(heard'[i]) BY <1>3, <2>7
  <2>9. t.speaker = u.speaker BY <1>3 DEF CanMerge
  <2> HIDE DEF s
  <2>10. turns'[k] = s BY <1>3 DEF s
  <2>11. \A j \in s.said : s.speaker = heard'[j].speaker /\ EndOf(heard'[j]) <= s.end
    <3> TAKE j \in s.said
    <3>1. CASE j = i BY <2>4, <2>7, <2>9, <3>1
    <3>2. CASE j \in t.said
      <4>1. j \in 1..Len(heard) /\ heard'[j] = heard[j] BY <2>6, <3>2, HearMoves
      <4>2. heard[j] \in Utterance
        BY <4>1, ElementOfSeq, UtteranceAssumption DEF TypeOK
      <4>3. t.speaker = heard[j].speaker /\ EndOf(heard[j]) <= t.end BY <2>2, <3>2 DEF Spans
      <4>4. EndOf(heard[j]) \in Int /\ t.end \in Nat /\ s.end \in Nat
        <5>1. t.end \in Nat /\ s.end \in Nat BY <2>2, <2>4 DEF Turn
        <5>2. EndOf(heard[j]) \in Int BY <4>2 DEF Utterance, EndOf, NoTime
        <5> QED BY <5>1, <5>2
      <4>5. s.end >= t.end /\ s.speaker = t.speaker BY <2>4
      <4>6. EndOf(heard'[j]) = EndOf(heard[j]) BY <4>1
      <4> HIDE DEF t
      <4> QED BY <4>1, <4>3, <4>4, <4>5, <4>6
    <3> QED BY <2>4, <3>1, <3>2
  <2>12. PICK f \in t.said : t.start = heard[f].start /\ \A j \in t.said : f <= j
    BY <2>2 DEF Spans
  <2>13. f \in s.said /\ s.start = heard'[f].start /\ \A j \in s.said : f <= j
    BY <2>4, <2>6, <2>12, HearMoves
  <2>14. s.said \subseteq {j \in DOMAIN heard' : Audible(heard'[j])} BY <2>4, <2>5, <2>7, <2>8 DEF Spans
  <2> QED BY <2>10, <2>11, <2>13, <2>14 DEF Spans
<1>4. CASE Audible(u) /\ k = n + 1 /\ turns'[n + 1] = NewTurn(u, i)
  <2> DEFINE t == NewTurn(u, i)
  <2>1. i \in Nat \ {0} /\ u \in Utterance BY HearMoves
  <2>2. /\ t.speaker = u.speaker /\ t.start = u.start /\ t.end = EndOf(u) /\ t.said = {i}
        /\ t \in Turn
    BY <1>4, <2>1, NewTurnFields
  <2> HIDE DEF t
  <2>3. turns'[k] = t BY <1>4 DEF t
  <2>4. heard'[i] = u /\ i \in DOMAIN heard' BY HearMoves
  <2>5. Audible(heard'[i]) BY <1>4, <2>4
  <2>6. EndOf(u) <= t.end BY <2>2 DEF Turn
  <2> QED BY <2>1, <2>2, <2>3, <2>4, <2>5, <2>6 DEF Spans
<1> QED BY <1>2, <1>3, <1>4, HearMoves

LEMMA SaidInHeard ==
    ASSUME TypeOK, TurnsSpan, NEW k \in DOMAIN turns
    PROVE  turns[k].said \subseteq 1..Len(heard) /\ Len(heard) \in Nat
BY LenProperties DEF TypeOK, TurnsSpan, Spans, AudibleAt

\* What a round does to the utterances of the turns: only the last turn gains one, the new.
LEMMA HearSays ==
    ASSUME TypeOK, NEW u \in Utterances, Hear(u)
    PROVE  /\ \A k \in DOMAIN turns : k \in DOMAIN turns'
           /\ \A k \in DOMAIN turns :
                  \/ turns'[k].said = turns[k].said
                  \/ k = Len(turns) /\ turns'[k].said = turns[k].said \cup {Len(heard) + 1}
                     /\ Len(turns') = Len(turns)
           /\ \A k \in DOMAIN turns' : k \notin DOMAIN turns =>
                  k = Len(turns) + 1 /\ turns'[k].said = {Len(heard) + 1}
           /\ Audible(u) => \E k \in DOMAIN turns' : Len(heard) + 1 \in turns'[k].said
<1> DEFINE n == Len(turns)
           i == Len(heard) + 1
<1>1. i \in Nat \ {0} /\ n \in Nat BY HearMoves
<1>2. CASE ~Audible(u) /\ turns' = turns BY <1>2, HearMoves
<1>3. CASE Audible(u) /\ n > 0 /\ CanMerge(turns[n], u) /\ Len(turns') = n
           /\ turns'[n] = Joined(turns[n], u, i)
           /\ \A k \in 1..n : k # n => turns'[k] = turns[k]
  <2>1. n \in 1..n BY <1>1, <1>3
  <2>2. turns[n] \in Turn BY <2>1, ElementOfSeq DEF TypeOK
  <2>3. turns'[n].said = turns[n].said \cup {i}
    BY <1>1, <1>3, <2>2, JoinedSaid, HearMoves
  <2> QED BY <1>3, <2>1, <2>3, HearMoves
<1>4. CASE Audible(u) /\ Len(turns') = n + 1 /\ turns'[n + 1] = NewTurn(u, i)
           /\ \A k \in 1..n : turns'[k] = turns[k]
  <2>1. turns'[n + 1].said = {i} BY <1>1, <1>4, NewTurnFields, HearMoves
  <2>2. DOMAIN turns = 1..n /\ DOMAIN turns' = 1..(n + 1) BY <1>1, <1>4, HearMoves
  <2>3. i \in turns'[n + 1].said BY <2>1
  <2>4. \A k \in DOMAIN turns : turns'[k].said = turns[k].said BY <1>4, <2>2
  <2>5. n + 1 \in DOMAIN turns' /\ \A k \in DOMAIN turns' : k \notin DOMAIN turns => k = n + 1
    BY <1>1, <2>2
  <2>6. \A k \in DOMAIN turns : k \in DOMAIN turns' BY <1>1, <2>2
  <2>7. \A k \in DOMAIN turns' : k \notin DOMAIN turns => k = n + 1 /\ turns'[k].said = {i}
    BY <2>1, <2>5
  <2>8. \E k \in DOMAIN turns' : i \in turns'[k].said BY <2>3, <2>5
  <2> QED BY <2>4, <2>6, <2>7, <2>8
<1>5. \/ ~Audible(u) /\ turns' = turns
      \/ /\ Audible(u) /\ n > 0 /\ CanMerge(turns[n], u) /\ Len(turns') = n
         /\ turns'[n] = Joined(turns[n], u, i)
         /\ \A k \in 1..n : k # n => turns'[k] = turns[k]
      \/ /\ Audible(u) /\ Len(turns') = n + 1 /\ turns'[n + 1] = NewTurn(u, i)
         /\ \A k \in 1..n : turns'[k] = turns[k]
  BY HearMoves
<1> QED BY <1>2, <1>3, <1>4, <1>5

LEMMA HearInOrder ==
    ASSUME TypeOK, TurnsSpan, TurnsInOrder, NEW u \in Utterances, Hear(u)
    PROVE  TurnsInOrder'
<1> SUFFICES ASSUME NEW k \in DOMAIN turns', NEW l \in DOMAIN turns', k < l,
                    NEW a \in turns'[k].said, NEW b \in turns'[l].said
             PROVE  a < b
  BY DEF TurnsInOrder
<1>1. DOMAIN turns = 1..Len(turns) /\ DOMAIN turns' = 1..Len(turns') /\ Len(turns) \in Nat
  BY HearMoves
<1>2. k \in DOMAIN turns
  <2>1. CASE l \in DOMAIN turns BY <1>1, <2>1
  <2>2. CASE l \notin DOMAIN turns
    <3>1. l = Len(turns) + 1 BY <2>2, HearSays
    <3> QED BY <1>1, <3>1
  <2> QED BY <2>1, <2>2
<1>3. turns'[k].said = turns[k].said
  <2>1. \/ turns'[k].said = turns[k].said
        \/ k = Len(turns) /\ Len(turns') = Len(turns)
    BY <1>2, HearSays
  <2>2. ~(k = Len(turns) /\ Len(turns') = Len(turns))
    <3>1. l \in 1..Len(turns') BY <1>1
    <3>2. SUFFICES ASSUME k = Len(turns), Len(turns') = Len(turns) PROVE FALSE OBVIOUS
    <3>3. l \in 1..Len(turns) BY <3>1, <3>2
    <3> QED BY <1>1, <3>2, <3>3
  <2> QED BY <2>1, <2>2
<1>4. a \in 1..Len(heard) /\ Len(heard) \in Nat BY <1>2, <1>3, SaidInHeard
<1>5. CASE b = Len(heard) + 1 BY <1>4, <1>5
<1>6. CASE l \in DOMAIN turns /\ b \in turns[l].said
  BY <1>2, <1>3, <1>6 DEF TurnsInOrder
<1> QED BY <1>5, <1>6, HearSays

LEMMA HearLosesNothing ==
    ASSUME TypeOK, NothingLost, NEW u \in Utterances, Hear(u)
    PROVE  NothingLost'
<1>1. ~Forgotten BY DEF Forgotten, Hear
<1> SUFFICES ASSUME NEW i \in AudibleAt' PROVE \E k \in DOMAIN turns' : i \in turns'[k].said
  BY DEF NothingLost
<1>2. CASE i \in 1..Len(heard)
  <2>1. i \in AudibleAt BY <1>2, HearMoves DEF AudibleAt
  <2>2. PICK k \in DOMAIN turns : i \in turns[k].said BY <1>1, <2>1 DEF NothingLost
  <2> QED BY <2>2, HearSays
<1>3. CASE i = Len(heard) + 1
  <2>1. Audible(u) BY <1>3, HearMoves DEF AudibleAt
  <2> QED BY <1>3, <2>1, HearSays
<1> QED BY <1>2, <1>3, HearMoves DEF AudibleAt

LEMMA HearFits ==
    ASSUME TypeOK, TurnsFit, NEW u \in Utterances, Hear(u)
    PROVE  TurnsFit'
<1> DEFINE n == Len(turns)
           i == Len(heard) + 1
<1> SUFFICES ASSUME NEW k \in 1..Len(turns')
             PROVE  turns'[k].size <= MaxChars \/ \E j \in Nat : turns'[k].said = {j}
  BY HearMoves DEF TurnsFit
<1>1. i \in Nat \ {0} /\ n \in Nat BY HearMoves
<1>2. CASE k \in 1..n /\ turns'[k] = turns[k] BY <1>2, HearMoves DEF TurnsFit
<1>3. CASE Audible(u) /\ k = n /\ n > 0 /\ CanMerge(turns[n], u) /\ turns'[n] = Joined(turns[n], u, i)
  <2>1. n \in 1..n BY <1>1, <1>3
  <2>2. turns[n] \in Turn BY <2>1, ElementOfSeq DEF TypeOK
  <2>3. turns'[n].size <= MaxChars BY <1>1, <1>3, <2>2, JoinedFields, HearMoves
  <2> QED BY <1>3, <2>3
<1>4. CASE Audible(u) /\ k = n + 1 /\ turns'[n + 1] = NewTurn(u, i)
  <2>1. turns'[n + 1].said = {i} BY <1>1, <1>4, NewTurnFields, HearMoves
  <2> QED BY <1>1, <1>4, <2>1
<1> QED BY <1>2, <1>3, <1>4, HearMoves

\* The first utterance of a turn that gains a later one stays its first.
LEMMA FirstStays ==
    ASSUME NEW S, NEW i \in Nat, NEW f \in S \cup {i}, \A j \in S : j \in Nat /\ j < i, S # {},
           \A j \in S \cup {i} : f <= j
    PROVE  f \in S /\ \A j \in S : f <= j
<1>1. PICK g \in S : TRUE OBVIOUS
<1>2. f <= g /\ g < i /\ g \in Nat BY <1>1
<1>3. f # i BY <1>2
<1> QED BY <1>3

LEMMA HearSplits ==
    ASSUME TypeOK, TurnsSpan, SplitsFounded, NEW u \in Utterances, Hear(u)
    PROVE  SplitsFounded'
<1> DEFINE n == Len(turns)
           i == Len(heard) + 1
<1> SUFFICES ASSUME NEW k \in 1..(Len(turns') - 1), NEW f \in turns'[k + 1].said,
                    \A j \in turns'[k + 1].said : f <= j
             PROVE  turns'[k].speaker = heard'[f].speaker =>
                        \/ heard'[f].start - turns'[k].end > MaxGap
                        \/ turns'[k].size + 1 + heard'[f].size > MaxChars
  BY DEF SplitsFounded, Apart
<1>0. u \in Utterance BY HearMoves
<1>1. i \in Nat \ {0} /\ n \in Nat /\ Len(turns') \in Nat /\ DOMAIN turns = 1..n
  BY HearMoves
<1>2. CASE turns' = turns
  <2>1. k + 1 \in 1..n BY <1>1, <1>2
  <2>2. f \in 1..Len(heard) BY <1>1, <1>2, <2>1, SaidInHeard
  <2>3. heard'[f] = heard[f] BY <2>2, HearMoves
  <2>4. Apart(turns[k], f) BY <1>1, <1>2, <2>1 DEF SplitsFounded
  <2> QED BY <1>2, <2>3, <2>4 DEF Apart
<1>3. CASE Audible(u) /\ n > 0 /\ CanMerge(turns[n], u) /\ Len(turns') = n
           /\ turns'[n] = Joined(turns[n], u, i)
           /\ \A l \in 1..n : l # n => turns'[l] = turns[l]
  <2>0. k \in 1..(n - 1) BY <1>3
  <2>1. k \in 1..n /\ k # n /\ k + 1 \in 1..n
    <3>1. n \in Nat BY <1>1
    <3> HIDE DEF n
    <3> QED BY <2>0, <3>1
  <2>2. turns'[k] = turns[k] BY <1>3, <2>1
  <2>3. turns[k + 1].said \subseteq 1..Len(heard) BY <1>1, <2>1, SaidInHeard
  <2>4. f \in turns[k + 1].said /\ \A j \in turns[k + 1].said : f <= j
    <3>1. CASE k + 1 # n BY <1>3, <2>1, <3>1
    <3>2. CASE k + 1 = n
      <4>1. turns[n] \in Turn BY <2>1, <3>2, ElementOfSeq DEF TypeOK
      <4>2. turns'[n].said = turns[n].said \cup {i}
        <5>1. Joined(turns[n], u, i).said = turns[n].said \cup {i}
          <6>1. Audible(u) /\ CanMerge(turns[n], u) BY <1>3
          <6> HIDE DEF n, i
          <6> QED BY <1>0, <1>1, <4>1, <6>1, JoinedSaid
        <5> QED BY <1>3, <5>1
      <4>3. turns[n].said # {} BY <1>1, <2>1, <3>2 DEF TurnsSpan, Spans
      <4>4. \A j \in turns[n].said : j \in Nat /\ j < i BY <2>3, <3>2, HearMoves
      <4> QED BY <1>1, <3>2, <4>2, <4>3, <4>4, FirstStays
    <3> QED BY <3>1, <3>2
  <2>5. heard'[f] = heard[f] BY <2>3, <2>4, HearMoves
  <2>7. Apart(turns[k], f) BY <2>0, <2>4 DEF SplitsFounded
  <2> QED BY <2>2, <2>5, <2>7 DEF Apart
<1>4. CASE /\ Audible(u) /\ n > 0 => ~CanMerge(turns[n], u)
           /\ Len(turns') = n + 1 /\ turns'[n + 1] = NewTurn(u, i) /\ Audible(u)
           /\ \A l \in 1..n : turns'[l] = turns[l]
  <2>1. k \in 1..n /\ turns'[k] = turns[k] BY <1>1, <1>4
  <2>2. CASE k + 1 \in 1..n
    <3>1. f \in turns[k + 1].said /\ \A j \in turns[k + 1].said : f <= j BY <1>4, <2>2
    <3>2. f \in 1..Len(heard) BY <1>1, <2>2, <3>1, SaidInHeard
    <3>3. heard'[f] = heard[f] BY <3>2, HearMoves
    <3>4. k \in 1..(n - 1) BY <1>1, <2>1, <2>2
    <3>5. Apart(turns[k], f) BY <3>1, <3>4 DEF SplitsFounded
    <3> QED BY <2>1, <3>3, <3>5 DEF Apart
  <2>3. CASE k = n
    <3>1. turns'[n + 1].said = {i} BY <1>0, <1>1, <1>4, NewTurnFields
    <3>2. f = i /\ heard'[f] = u
      <4>1. f \in turns'[n + 1].said BY <2>3
      <4>2. heard'[i] = u BY HearMoves
      <4> QED BY <3>1, <4>1, <4>2
    <3>3. ~CanMerge(turns[n], u) BY <1>1, <1>4, <2>1, <2>3
    <3>4. turns[n] \in Turn BY <2>1, <2>3, ElementOfSeq DEF TypeOK
    <3>5. u.start \in Nat /\ u.size \in Nat BY <1>4, HearMoves DEF Utterance, Audible, NoTime
    <3>6. MaxGap \in Nat /\ MaxChars \in Nat BY LimitAssumption
    <3>7. turns[n].speaker = u.speaker =>
              u.start - turns[n].end > MaxGap \/ turns[n].size + 1 + u.size > MaxChars
      <4>1. turns[n].end \in Nat /\ turns[n].size \in Nat BY <3>4 DEF Turn
      <4>2. \A t : ~CanMerge(t, u) /\ t.speaker = u.speaker =>
                ~(u.start - t.end <= MaxGap /\ t.size + 1 + u.size <= MaxChars)
        BY DEF CanMerge
      <4>3. \A a, b \in Nat : ~(u.start - a <= MaxGap /\ b + 1 + u.size <= MaxChars) =>
                u.start - a > MaxGap \/ b + 1 + u.size > MaxChars
        BY <3>5, <3>6
      <4> QED BY <3>3, <4>1, <4>2, <4>3
    <3>8. turns'[k] = turns[n] BY <2>1, <2>3
    <3> QED BY <3>2, <3>7, <3>8
  <2> QED BY <1>1, <2>1, <2>2, <2>3
<1> QED BY <1>2, <1>3, <1>4, HearMoves

LEMMA HearNoRoles ==
    ASSUME TypeOK, NoRolesYet, NEW u \in Utterances, Hear(u)
    PROVE  NoRolesYet'
<1> DEFINE n == Len(turns)
           i == Len(heard) + 1
<1> SUFFICES ASSUME NEW k \in 1..Len(turns') PROVE turns'[k].role = "unknown"
  BY HearMoves DEF NoRolesYet
<1>1. i \in Nat \ {0} /\ n \in Nat BY HearMoves
<1>2. \A l \in 1..n : turns[l].role = "unknown" BY HearMoves DEF NoRolesYet, Hear
<1>3. CASE k \in 1..n /\ turns'[k] = turns[k] BY <1>2, <1>3
<1>4. CASE Audible(u) /\ k = n /\ n > 0 /\ CanMerge(turns[n], u) /\ turns'[n] = Joined(turns[n], u, i)
  <2>1. n \in 1..n BY <1>1, <1>4
  <2>2. turns[n] \in Turn BY <2>1, ElementOfSeq DEF TypeOK
  <2>3. turns'[n].role = turns[n].role BY <1>1, <1>4, <2>2, JoinedFields, HearMoves
  <2> QED BY <1>2, <1>4, <2>1, <2>3
<1>5. CASE Audible(u) /\ k = n + 1 /\ turns'[n + 1] = NewTurn(u, i)
  BY <1>1, <1>5, NewTurnFields, HearMoves
<1> QED BY <1>3, <1>4, <1>5, HearMoves

-----------------------------------------------------------------------------
(***************************************************************************)
(* Roles                                                                   *)
(***************************************************************************)

LEMMA FallbackNamesOneOrNone ==
    /\ FallbackRoleMap \in [{"0", "1"} -> Role]
    /\ \/ FallbackRoleMap["0"] = "unknown" /\ FallbackRoleMap["1"] = "unknown"
       \/ {FallbackRoleMap["0"], FallbackRoleMap["1"]} = {"salesperson", "client"}
<1> DEFINE score(s) == Cardinality({i \in 1..Least(EarlyTurns, Len(turns)) :
                           turns[i].speaker = s /\ "greeting" \in turns[i].cues})
           agent(s, other) == [q \in {s, other} |-> IF q = s THEN "salesperson" ELSE "client"]
           none == [q \in {"0", "1"} |-> "unknown"]
           a == score("0") > score("1")
           b == score("1") > score("0")
<1>1. FallbackRoleMap = CASE a -> agent("0", "1") [] b -> agent("1", "0") [] OTHER -> none
  BY DEF FallbackRoleMap
<1> HIDE DEF a, b
<1>2. FallbackRoleMap \in {agent("0", "1"), agent("1", "0"), none} BY <1>1
<1>3. agent("0", "1") \in [{"0", "1"} -> Role] BY DEF Role
<1>4. agent("1", "0") \in [{"0", "1"} -> Role] BY DEF Role
<1>5. none \in [{"0", "1"} -> Role] BY DEF Role
<1>6. CASE FallbackRoleMap = agent("0", "1") BY <1>3, <1>6
<1>7. CASE FallbackRoleMap = agent("1", "0") BY <1>4, <1>7
<1>8. CASE FallbackRoleMap = none BY <1>5, <1>8
<1> QED BY <1>2, <1>6, <1>7, <1>8

\* Labelling changes nothing but the roles.
SameButRoles(ts) ==
    /\ ts \in Seq(Turn) /\ Len(ts) = Len(turns) /\ DOMAIN ts = DOMAIN turns
    /\ \A k \in DOMAIN turns :
           /\ ts[k].speaker = turns[k].speaker /\ ts[k].start = turns[k].start
           /\ ts[k].end = turns[k].end /\ ts[k].size = turns[k].size
           /\ ts[k].said = turns[k].said /\ ts[k].cues = turns[k].cues

LEMMA ApplyKeepsTurns ==
    ASSUME TypeOK, NEW map \in [{"0", "1"} -> Role]
    PROVE  /\ SameButRoles(ApplyRoleMap(map))
           /\ \A k \in DOMAIN turns : ApplyRoleMap(map)[k].role =
                  IF Diarized(turns[k]) THEN map[turns[k].speaker] ELSE "unknown"
<1> DEFINE role(t) == IF Diarized(t) THEN map[t.speaker] ELSE "unknown"
           relabelled(t) == [t EXCEPT !.role = role(t)]
           ts == ApplyRoleMap(map)
<1>1. turns \in Seq(Turn) BY DEF TypeOK
<1>2. Len(turns) \in Nat /\ DOMAIN turns = 1..Len(turns) BY <1>1, LenProperties
<1>3. \A k \in DOMAIN turns : turns[k] \in Turn BY <1>1, <1>2, ElementOfSeq
<1>4. \A t \in Turn : role(t) \in Role BY DEF Diarized, Role
<1>5. \A t \in Turn :
        /\ relabelled(t) \in Turn
        /\ relabelled(t).speaker = t.speaker /\ relabelled(t).start = t.start
        /\ relabelled(t).end = t.end /\ relabelled(t).size = t.size
        /\ relabelled(t).said = t.said /\ relabelled(t).cues = t.cues
        /\ relabelled(t).role = role(t)
  <2> TAKE t \in Turn
  <2> DEFINE r == role(t)
  <2>1. r \in Role BY <1>4
  <2> HIDE DEF r
  <2>2. relabelled(t) = [t EXCEPT !.role = r] BY DEF r
  <2>3. role(t) = r BY DEF r
  <2> HIDE DEF relabelled, role
  <2> QED BY <2>1, <2>2, <2>3 DEF Turn
<1>6. ts = [k \in DOMAIN turns |-> relabelled(turns[k])] BY DEF ApplyRoleMap
<1>a. \A k \in DOMAIN turns : role(turns[k]) =
        IF Diarized(turns[k]) THEN map[turns[k].speaker] ELSE "unknown"
  OBVIOUS
<1> HIDE DEF ts, relabelled, role
<1>7. ts \in [1..Len(turns) -> Turn] BY <1>2, <1>3, <1>5, <1>6
<1>8. ts \in Seq(Turn) BY <1>2, <1>7, SeqDef
<1>9. Len(ts) = Len(turns) BY <1>2, <1>7, <1>8, LenProperties
<1>10. \A k \in DOMAIN turns : ts[k] = relabelled(turns[k]) BY <1>6
<1>11. DOMAIN ts = DOMAIN turns BY <1>6
<1>12. SameButRoles(ts) BY <1>3, <1>5, <1>8, <1>9, <1>10, <1>11 DEF SameButRoles
<1>13. \A k \in DOMAIN turns : ts[k].role = role(turns[k]) BY <1>3, <1>5, <1>10
<1> QED BY <1>a, <1>12, <1>13 DEF ts

Labels ==
    RolesUnneeded \/ RolesByFallback
    \/ \E map \in [{"0", "1"} -> Role] : RolesByModel(map)

LEMMA LabelsKeepTurns ==
    ASSUME TypeOK, Labels
    PROVE  SameButRoles(turns') /\ heard' = heard /\ stage = "spoken" /\ stage' = "labelled"
           /\ answer' = answer /\ verdict' = verdict
           /\ roleBy' \in {"nobody", "model", "fallback"}
<1>1. CASE RolesUnneeded
  <2>1. SameButRoles(turns) BY DEF SameButRoles, TypeOK
  <2> QED BY <1>1, <2>1 DEF RolesUnneeded, Labelled
<1>2. CASE RolesByFallback
  <2>1. SameButRoles(ApplyRoleMap(FallbackRoleMap)) BY FallbackNamesOneOrNone, ApplyKeepsTurns
  <2> QED BY <1>2, <2>1 DEF RolesByFallback, Labelled
<1>3. CASE \E map \in [{"0", "1"} -> Role] : RolesByModel(map)
  <2>1. PICK map \in [{"0", "1"} -> Role] : RolesByModel(map) BY <1>3
  <2>2. SameButRoles(ApplyRoleMap(map)) BY ApplyKeepsTurns
  <2> QED BY <2>1, <2>2 DEF RolesByModel, Labelled
<1> QED BY <1>1, <1>2, <1>3 DEF Labels

LEMMA LabelsGiveRoles ==
    ASSUME TypeOK, NoRolesYet, Labels
    PROVE  RolesFollowSpeakers'
<1>1. SameButRoles(turns') BY LabelsKeepTurns
<1>2. CASE RolesUnneeded
  <2>1. \A k \in DOMAIN turns : turns[k].role = "unknown" BY <1>2 DEF NoRolesYet, RolesUnneeded, Labelled
  <2> QED BY <1>2, <2>1 DEF RolesFollowSpeakers, RolesUnneeded, Labelled
<1>3. ASSUME NEW map \in [{"0", "1"} -> Role], turns' = ApplyRoleMap(map)
      PROVE  /\ \A k \in DOMAIN turns' : turns'[k].role =
                    IF Diarized(turns'[k]) THEN map[turns'[k].speaker] ELSE "unknown"
             /\ \A k \in DOMAIN turns' : Diarized(turns'[k]) => turns'[k].speaker \in {"0", "1"}
  BY <1>1, <1>3, ApplyKeepsTurns DEF SameButRoles, Diarized
<1>4. CASE \E map \in [{"0", "1"} -> Role] : RolesByModel(map)
  <2>1. PICK map \in [{"0", "1"} -> Role] : RolesByModel(map) BY <1>4
  <2>2. turns' = ApplyRoleMap(map) /\ roleBy' = "model" BY <2>1 DEF RolesByModel, Labelled
  <2>3. \A k \in DOMAIN turns' : turns'[k].role =
                    IF Diarized(turns'[k]) THEN map[turns'[k].speaker] ELSE "unknown"
    BY <1>3, <2>2
  <2> QED BY <2>2, <2>3 DEF RolesFollowSpeakers, Diarized
<1>5. CASE RolesByFallback
  <2> DEFINE map == FallbackRoleMap
  <2>1. turns' = ApplyRoleMap(map) BY <1>5 DEF RolesByFallback, Labelled
  <2>2. map \in [{"0", "1"} -> Role] BY FallbackNamesOneOrNone
  <2>3. \/ map["0"] = "unknown" /\ map["1"] = "unknown"
        \/ {map["0"], map["1"]} = {"salesperson", "client"}
    BY FallbackNamesOneOrNone
  <2>4. \A k \in DOMAIN turns' : turns'[k].role =
                    IF Diarized(turns'[k]) THEN map[turns'[k].speaker] ELSE "unknown"
    BY <1>1, <2>1, <2>2, ApplyKeepsTurns DEF SameButRoles, Diarized
  <2>5. PICK m : m = map OBVIOUS
  <2>6. \A k \in DOMAIN turns' : turns'[k].role =
                    IF turns'[k].speaker \in {"0", "1"} THEN m[turns'[k].speaker] ELSE "unknown"
    BY <2>4, <2>5 DEF Diarized
  <2>7. \A k, l \in {j \in DOMAIN turns' : turns'[j].speaker \in {"0", "1"}} :
            turns'[k].speaker # turns'[l].speaker
                => \/ turns'[k].role = "unknown" /\ turns'[l].role = "unknown"
                   \/ {turns'[k].role, turns'[l].role} = {"salesperson", "client"}
    <3> HIDE DEF map
    <3>1. \/ m["0"] = "unknown" /\ m["1"] = "unknown"
          \/ {m["0"], m["1"]} = {"salesperson", "client"}
      BY <2>3, <2>5
    <3> TAKE k, l \in {j \in DOMAIN turns' : turns'[j].speaker \in {"0", "1"}}
    <3> HAVE turns'[k].speaker # turns'[l].speaker
    <3>2. turns'[k].role = m[turns'[k].speaker] /\ turns'[l].role = m[turns'[l].speaker]
      BY <2>6
    <3>3. CASE turns'[k].speaker = "0" /\ turns'[l].speaker = "1" BY <3>1, <3>2, <3>3
    <3>4. CASE turns'[k].speaker = "1" /\ turns'[l].speaker = "0" BY <3>1, <3>2, <3>4
    <3> QED BY <3>3, <3>4
  <2> QED BY <2>6, <2>7 DEF RolesFollowSpeakers, Diarized
<1> QED BY <1>2, <1>4, <1>5 DEF Labels

\* The invariants about merging say nothing of the roles.
LEMMA LabelsKeepMerging ==
    ASSUME TypeOK, Merging, TurnsFit, SplitsFounded, Labels
    PROVE  TypeOK' /\ Merging' /\ TurnsFit' /\ SplitsFounded'
<1>1. SameButRoles(turns') /\ heard' = heard BY LabelsKeepTurns
<1>2. TypeOK' BY <1>1, LabelsKeepTurns DEF SameButRoles, TypeOK
<1>3. TurnsSpan'
  BY <1>1 DEF Merging, TurnsSpan, Spans, SameButRoles
<1>4. TurnsInOrder' BY <1>1 DEF Merging, TurnsInOrder, SameButRoles
<1>5. NothingLost'
  <2>1. ~Forgotten' => ~Forgotten
    <3>1. turns' = <<>> <=> turns = <<>>
      BY <1>1, EmptySeq DEF SameButRoles, TypeOK
    <3> QED BY <3>1, LabelsKeepTurns DEF Forgotten
  <2>2. UNION {turns'[k].said : k \in DOMAIN turns'} = UNION {turns[k].said : k \in DOMAIN turns}
    BY <1>1 DEF SameButRoles
  <2> QED BY <1>1, <2>1, <2>2 DEF Merging, NothingLost, AudibleAt
<1>6. TimesRise' BY <1>1 DEF Merging, TimesRise
<1>7. TurnsFit' BY <1>1 DEF TurnsFit, SameButRoles
<1>8. SplitsFounded'
  <2> SUFFICES ASSUME NEW k \in 1..(Len(turns') - 1), NEW f \in turns'[k + 1].said,
                      \A j \in turns'[k + 1].said : f <= j
               PROVE  turns'[k].speaker = heard'[f].speaker =>
                          \/ heard'[f].start - turns'[k].end > MaxGap
                          \/ turns'[k].size + 1 + heard'[f].size > MaxChars
    BY DEF SplitsFounded, Apart
  <2>1. Len(turns) \in Nat /\ DOMAIN turns = 1..Len(turns) BY LenProperties DEF TypeOK
  <2>2. k \in 1..(Len(turns) - 1) BY <1>1 DEF SameButRoles
  <2>3. k \in DOMAIN turns /\ k + 1 \in DOMAIN turns BY <2>1, <2>2
  <2>4. turns'[k + 1].said = turns[k + 1].said BY <1>1, <2>3 DEF SameButRoles
  <2>5. Apart(turns[k], f) BY <2>2, <2>4 DEF SplitsFounded
  <2> QED BY <1>1, <2>3, <2>5 DEF Apart, SameButRoles
<1> QED BY <1>2, <1>3, <1>4, <1>5, <1>6, <1>7, <1>8 DEF Merging

-----------------------------------------------------------------------------
(***************************************************************************)
(* The verdict                                                             *)
(***************************************************************************)

\* The first expression that matches: its cue was heard, none before it was.
LEMMA FirstOfIsFirst ==
    ASSUME NEW order, DOMAIN order \subseteq Nat, NEW cues
    PROVE  \/ FirstOf(order, cues) = "nothing" /\ \A i \in DOMAIN order : order[i] \notin cues
           \/ \E i \in DOMAIN order :
                  /\ FirstOf(order, cues) = order[i] /\ order[i] \in cues
                  /\ \A j \in DOMAIN order : j < i => order[j] \notin cues
<1> DEFINE hits == {i \in DOMAIN order : order[i] \in cues}
           c == CHOOSE i \in hits : \A j \in hits : i <= j
<1>1. FirstOf(order, cues) = IF hits = {} THEN "nothing" ELSE order[c] BY DEF FirstOf
<1>2. CASE hits = {} BY <1>1, <1>2
<1>3. CASE hits # {}
  <2>1. \E i \in hits : \A j \in hits : i <= j BY <1>3, LeastNat
  <2>2. c \in hits /\ \A j \in hits : c <= j BY <2>1
  <2>3. \A j \in DOMAIN order : j < c => order[j] \notin cues BY <2>2
  <2> HIDE DEF c
  <2> QED BY <1>1, <1>3, <2>2, <2>3
<1> QED BY <1>2, <1>3

LEMMA ResultsInOrder ==
    ASSUME NEW cues
    PROVE  LET cue == FirstOf(ResultCues, cues) IN
           /\ cues = {} => cue = "nothing"
           /\ cue = "booked" => "booked" \in cues /\ cues \cap {"noConnect", "cancel", "reschedule"} = {}
<1>1. DOMAIN ResultCues = 1..8 /\ DOMAIN ResultCues \subseteq Nat BY DEF ResultCues
<1>2. /\ ResultCues[1] = "noConnect" /\ ResultCues[2] = "cancel" /\ ResultCues[3] = "reschedule"
      /\ ResultCues[4] = "booked" /\ ResultCues[5] = "request" /\ ResultCues[6] = "transfer"
      /\ ResultCues[7] = "notInterested" /\ ResultCues[8] = "info"
  BY DEF ResultCues
<1> DEFINE cue == FirstOf(ResultCues, cues)
<1> HIDE DEF cue
<1>3. \/ cue = "nothing" /\ \A i \in DOMAIN ResultCues : ResultCues[i] \notin cues
      \/ \E i \in DOMAIN ResultCues :
             /\ cue = ResultCues[i] /\ ResultCues[i] \in cues
             /\ \A j \in DOMAIN ResultCues : j < i => ResultCues[j] \notin cues
  BY <1>1, FirstOfIsFirst DEF cue
<1>4. cues = {} => cue = "nothing" BY <1>3
<1>5. ASSUME cue = "booked"
      PROVE  "booked" \in cues /\ cues \cap {"noConnect", "cancel", "reschedule"} = {}
  <2>1. PICK i \in 1..8 : /\ cue = ResultCues[i] /\ ResultCues[i] \in cues
                          /\ \A j \in 1..8 : j < i => ResultCues[j] \notin cues
    BY <1>1, <1>3, <1>5
  <2>2. i = 4 BY <1>2, <1>5, <2>1
  <2>3. ResultCues[1] \notin cues /\ ResultCues[2] \notin cues /\ ResultCues[3] \notin cues
    BY <2>1, <2>2
  <2> QED BY <1>2, <1>5, <2>1, <2>3
<1> QED BY <1>4, <1>5 DEF cue

LEMMA NoCuesNothingFound ==
    FirstOf(IntentCues, {}) = "nothing" /\ FirstOf(MoodCues, {}) = "nothing"
<1>1. DOMAIN IntentCues \subseteq Nat BY DEF IntentCues
<1>2. DOMAIN MoodCues \subseteq Nat BY DEF MoodCues
<1> QED BY <1>1, <1>2, FirstOfIsFirst

LEMMA MapToEnumsFaithful ==
    ASSUME NEW raw \in Answer
    PROVE  /\ MapToEnums(raw) \in Verdict
           /\ raw \in Offered =>
                  /\ MapToEnums(raw).intent = (IF raw.intent = "Purchase" THEN "None" ELSE raw.intent)
                  /\ MapToEnums(raw).result = (IF raw.result = "FollowUp" THEN "None" ELSE raw.result)
                  /\ MapToEnums(raw).department = raw.department
                  /\ MapToEnums(raw).sentiment = raw.sentiment
<1> DEFINE known(x, labels) == IF x \in labels THEN x ELSE "None"
           s == IF raw.sentiment < 1 THEN 1 ELSE Least(5, raw.sentiment)
           v == MapToEnums(raw)
<1>1. v = [intent |-> known(raw.intent, Intent), result |-> known(raw.result, Result \ {"FollowUp"}),
           department |-> known(raw.department, Department), sentiment |-> s]
  BY DEF MapToEnums
<1>2. known(raw.intent, Intent) \in Intent BY DEF Intent
<1>3. known(raw.result, Result \ {"FollowUp"}) \in Result BY DEF Result
<1>4. known(raw.department, Department) \in Department BY DEF Department
<1>5. s \in 1..5 BY DEF Answer, Least
<1>6. v \in Verdict BY <1>1, <1>2, <1>3, <1>4, <1>5 DEF Verdict
<1>7. ASSUME raw \in Offered
      PROVE  /\ v.intent = (IF raw.intent = "Purchase" THEN "None" ELSE raw.intent)
             /\ v.result = (IF raw.result = "FollowUp" THEN "None" ELSE raw.result)
             /\ v.department = raw.department /\ v.sentiment = raw.sentiment
  <2>1. v.intent = (IF raw.intent = "Purchase" THEN "None" ELSE raw.intent)
    BY <1>1, <1>7 DEF Offered, Intent
  <2>2. v.result = (IF raw.result = "FollowUp" THEN "None" ELSE raw.result)
    BY <1>1, <1>7 DEF Offered, Result
  <2>3. v.department = raw.department BY <1>1, <1>7 DEF Offered
  <2>4. s = raw.sentiment BY <1>7 DEF Offered, Least
  <2> QED BY <1>1, <2>1, <2>2, <2>3, <2>4
<1> QED BY <1>6, <1>7

LEMMA HeuristicFounded ==
    ASSUME NEW cues
    PROVE  /\ Heuristic(cues) \in Verdict
           /\ cues = {} /\ turns = <<>> => Heuristic(cues) = Nothing
           /\ turns # <<>> => Heuristic(cues).intent # "None"
           /\ Heuristic(cues).department \in cues \cup {"None"}
           /\ Heuristic(cues).result = "AppointmentBooked" =>
                  "booked" \in cues /\ cues \cap {"noConnect", "cancel", "reschedule"} = {}
<1> DEFINE v == Heuristic(cues)
<1>1. v = [intent |-> IntentOf(cues), result |-> ResultOf(cues),
           department |-> DepartmentOf(cues), sentiment |-> SentimentOf(cues)]
  BY DEF Heuristic
<1>2. IntentOf(cues) \in Intent /\ (turns # <<>> => IntentOf(cues) # "None")
      /\ (turns = <<>> /\ FirstOf(IntentCues, cues) = "nothing" => IntentOf(cues) = "None")
  BY DEF IntentOf, Intent
<1>3. ResultOf(cues) \in Result
      /\ (ResultOf(cues) = "AppointmentBooked" => FirstOf(ResultCues, cues) = "booked")
      /\ (FirstOf(ResultCues, cues) = "nothing" => ResultOf(cues) = "None")
  BY DEF ResultOf, Result
<1>4. DepartmentOf(cues) \in Department /\ DepartmentOf(cues) \in cues \cup {"None"}
      /\ (cues = {} => DepartmentOf(cues) = "None")
  BY DEF DepartmentOf, Department, DepartmentCues
<1>5. SentimentOf(cues) \in 1..5 /\ (FirstOf(MoodCues, cues) = "nothing" => SentimentOf(cues) = 3)
  BY DEF SentimentOf
<1>6. v \in Verdict BY <1>1, <1>2, <1>3, <1>4, <1>5 DEF Verdict
<1>7. ASSUME cues = {}, turns = <<>> PROVE v = Nothing
  <2>1. FirstOf(IntentCues, cues) = "nothing" /\ FirstOf(MoodCues, cues) = "nothing"
        /\ FirstOf(ResultCues, cues) = "nothing"
    BY <1>7, NoCuesNothingFound, ResultsInOrder
  <2> QED BY <1>1, <1>2, <1>3, <1>4, <1>5, <1>7, <2>1 DEF Nothing
<1> QED BY <1>1, <1>2, <1>3, <1>4, <1>6, <1>7, ResultsInOrder

LEMMA Classifies ==
    ASSUME TypeOK, (\E raw \in Answers : ClassifyByModel(raw)) \/ ClassifyByKeywords
    PROVE  /\ TypeOK' /\ VerdictIsFounded' /\ UNCHANGED <<heard, turns, roleBy>>
           /\ stage = "labelled" /\ stage' = "classified"
<1>1. CASE \E raw \in Answers : ClassifyByModel(raw)
  <2>1. PICK raw \in Answers : ClassifyByModel(raw) BY <1>1
  <2>2. raw \in Answer BY AnswerAssumption
  <2>3. /\ answer' = raw /\ verdict' = MapToEnums(raw) /\ UNCHANGED <<heard, turns, roleBy>>
        /\ stage = "labelled" /\ stage' = "classified"
    BY <2>1 DEF ClassifyByModel, Classified
  <2> DEFINE v == MapToEnums(raw)
  <2>4. v \in Verdict BY <2>2, MapToEnumsFaithful
  <2>5. raw # NoAnswer
    <3>1. NoAnswer.intent = "not asked" BY DEF NoAnswer, Nothing
    <3>2. raw.intent \in Intent \cup {"Purchase", "?"} BY <2>2 DEF Answer
    <3> QED BY <3>1, <3>2 DEF Intent
  <2>6. ASSUME raw \in Offered
        PROVE  v = [raw EXCEPT !.result = IF @ = "FollowUp" THEN "None" ELSE @,
                               !.intent = IF @ = "Purchase" THEN "None" ELSE @]
    <3>1. /\ v.intent = (IF raw.intent = "Purchase" THEN "None" ELSE raw.intent)
          /\ v.result = (IF raw.result = "FollowUp" THEN "None" ELSE raw.result)
          /\ v.department = raw.department /\ v.sentiment = raw.sentiment
      BY <2>2, <2>6, MapToEnumsFaithful
    <3> HIDE DEF v
    <3> QED BY <2>4, <2>6, <3>1 DEF Verdict, Offered
  <2> HIDE DEF v
  <2>7. verdict' = v BY <2>3 DEF v
  <2>8. TypeOK' BY <2>3, <2>4, <2>7 DEF TypeOK
  <2>9. VerdictIsFounded' BY <2>3, <2>5, <2>6, <2>7 DEF VerdictIsFounded
  <2> QED BY <2>3, <2>8, <2>9
<1>2. CASE ClassifyByKeywords
  <2> DEFINE v == Heuristic(CuesHeard)
  <2>1. /\ answer' = NoAnswer /\ verdict' = v /\ UNCHANGED <<heard, turns, roleBy>>
        /\ stage = "labelled" /\ stage' = "classified"
    BY <1>2 DEF ClassifyByKeywords, Classified
  <2>2. /\ v \in Verdict
        /\ CuesHeard = {} /\ turns = <<>> => v = Nothing
        /\ turns # <<>> => v.intent # "None"
        /\ v.department \in CuesHeard \cup {"None"}
        /\ v.result = "AppointmentBooked" =>
               "booked" \in CuesHeard /\ CuesHeard \cap {"noConnect", "cancel", "reschedule"} = {}
    BY HeuristicFounded
  <2> HIDE DEF v
  <2>3. turns = <<>> => CuesHeard = {} BY DEF CuesHeard
  <2>4. TypeOK' BY <2>1, <2>2 DEF TypeOK
  <2>5. NoAnswer \notin Offered
    <3>1. NoAnswer.intent = "not asked" BY DEF NoAnswer, Nothing
    <3> QED BY <3>1 DEF Offered, Intent
  <2>6. CuesHeard' = CuesHeard BY <2>1 DEF CuesHeard
  <2>7. VerdictIsFounded' BY <2>1, <2>2, <2>3, <2>5, <2>6 DEF VerdictIsFounded
  <2> QED BY <2>1, <2>4, <2>7
<1> QED BY <1>1, <1>2

-----------------------------------------------------------------------------
(***************************************************************************)
(* The prompts                                                             *)
(***************************************************************************)

UpTo(g, n, base, step) == g[0] = base /\ \A k \in 1..n : g[k] = step[<<k, g[k - 1]>>]

\* A function on 0..n given by its first value and a step exists.
LEMMA UpToExists ==
    ASSUME NEW T, NEW base \in T, NEW n \in Nat, NEW step \in [(1..n) \X T -> T]
    PROVE  \E g \in [0..n -> T] : UpTo(g, n, base, step)
<1> DEFINE Good(m, g) == g[0] = base /\ \A k \in 1..m : g[k] = step[<<k, g[k - 1]>>]
           bad == {m \in 0..n : ~ \E g \in [0..m -> T] : Good(m, g)}
<1>1. SUFFICES ASSUME bad # {} PROVE FALSE
  <2>1. n \in 0..n OBVIOUS
  <2> QED BY <2>1 DEF UpTo
<1>2. bad \in SUBSET Nat OBVIOUS
<1>3. PICK m \in bad : \A j \in bad : m <= j BY <1>1, <1>2, LeastNat
<1>4. CASE m = 0
  <2> DEFINE g == [k \in 0..0 |-> base]
  <2>1. g \in [0..m -> T] /\ Good(m, g) BY <1>4
  <2> QED BY <1>3, <2>1
<1>5. CASE m # 0
  <2>1. m - 1 \in 0..n /\ m \in 1..n /\ ~(m <= m - 1) BY <1>3, <1>5
  <2>2. PICK h \in [0..(m - 1) -> T] : Good(m - 1, h) BY <1>3, <2>1
  <2>3. step[<<m, h[m - 1]>>] \in T BY <2>1
  <2> DEFINE g == [k \in 0..m |-> IF k = m THEN step[<<m, h[m - 1]>>] ELSE h[k]]
  <2>4. g \in [0..m -> T] BY <2>1, <2>3
  <2>5. \A k \in 0..(m - 1) : g[k] = h[k] BY <2>1
  <2>6. g[m] = step[<<m, g[m - 1]>>] BY <2>1, <2>5
  <2> HIDE DEF g
  <2>7. g[0] = base BY <2>1, <2>2, <2>5
  <2>8. \A k \in 1..m : g[k] = step[<<k, g[k - 1]>>]
    <3> TAKE k \in 1..m
    <3>1. CASE k = m BY <2>6, <3>1
    <3>2. CASE k # m
      <4>1. k \in 1..(m - 1) /\ k \in 0..(m - 1) /\ k - 1 \in 0..(m - 1) BY <2>1, <3>2
      <4> QED BY <2>2, <2>5, <4>1
    <3> QED BY <3>1, <3>2
  <2>9. Good(m, g) BY <2>7, <2>8
  <2> QED BY <1>3, <2>4, <2>9
<1> QED BY <1>4, <1>5

\* Joined lines have a length, whatever their number.
LEMMA LengthTyped ==
    ASSUME NEW lines \in Seq(Nat)
    PROVE  Length(lines, 0) = -1 /\ \A k \in 0..Len(lines) : Length(lines, k) \in Int
<1> DEFINE n == Len(lines)
           Sums(f) == f = [k \in 0..n |-> IF k = 0 THEN -1 ELSE f[k - 1] + 1 + lines[k]]
           f == CHOOSE g : Sums(g)
           step == [p \in (1..n) \X Int |-> p[2] + 1 + lines[p[1]]]
<1>1. n \in Nat /\ \A k \in 1..n : lines[k] \in Nat BY LenProperties, ElementOfSeq
<1>2. step \in [(1..n) \X Int -> Int] BY <1>1
<1>3. \A k \in 1..n, x \in Int : step[<<k, x>>] = x + 1 + lines[k] OBVIOUS
<1>7. \A k \in 0..n : Length(lines, k) = f[k] BY DEF Length
<1> HIDE DEF step, n
<1>a. n \in Nat /\ -1 \in Int BY <1>1
<1>b. PICK g \in [0..n -> Int] : UpTo(g, n, -1, step) BY <1>a, <1>2, UpToExists
<1>4. g[0] = -1 /\ \A k \in 1..n : g[k] = step[<<k, g[k - 1]>>] BY <1>b DEF UpTo
<1>5. Sums(g)
  <2>1. \A k \in 1..n : k - 1 \in 0..n BY <1>1
  <2>2. \A k \in 1..n : g[k] = g[k - 1] + 1 + lines[k] BY <1>3, <1>4, <2>1
  <2>3. \A k \in 0..n : g[k] = IF k = 0 THEN -1 ELSE g[k - 1] + 1 + lines[k]
    BY <1>1, <1>4, <2>2
  <2> QED BY <2>3
<1>6. Sums(f) BY <1>5
<1> HIDE DEF f
<1>8. f[0] = -1 BY <1>1, <1>6
<1>9. \A k \in 1..n : f[k] = f[k - 1] + 1 + lines[k]
  <2> TAKE k \in 1..n
  <2>1. k \in 0..n /\ k # 0 BY <1>1
  <2> QED BY <1>6, <2>1
<1>10. \A k \in 0..n : f[k] \in Int
  <2> DEFINE bad == {k \in 0..n : f[k] \notin Int}
  <2>1. SUFFICES ASSUME bad # {} PROVE FALSE OBVIOUS
  <2>2. bad \in SUBSET Nat OBVIOUS
  <2>3. PICK k \in bad : \A j \in bad : k <= j BY <2>1, <2>2, LeastNat
  <2>4. k # 0 BY <1>8, <2>3
  <2>5. k \in 1..n /\ k - 1 \in 0..n /\ k - 1 \notin bad BY <1>1, <2>3, <2>4
  <2>6. f[k - 1] \in Int BY <2>5
  <2>7. f[k] = f[k - 1] + 1 + lines[k] /\ lines[k] \in Nat BY <1>1, <1>9, <2>5
  <2>8. f[k] \in Int BY <2>6, <2>7
  <2> QED BY <2>3, <2>8
<1>11. 0 \in 0..n BY <1>1
<1> QED BY <1>7, <1>8, <1>10, <1>11 DEF n

LEMMA DiarizedTurnsTyped ==
    ASSUME TypeOK
    PROVE  DiarizedTurns \in Seq(Turn)
<1> DEFINE n == Len(turns)
           Selects(f) == f = [k \in 0..n |->
                                 IF k = 0 THEN <<>>
                                 ELSE IF Diarized(turns[k]) THEN Append(f[k - 1], turns[k])
                                      ELSE f[k - 1]]
           f == CHOOSE g : Selects(g)
           step == [p \in (1..n) \X Seq(Turn) |->
                       IF Diarized(turns[p[1]]) THEN Append(p[2], turns[p[1]]) ELSE p[2]]
<1>1. n \in Nat /\ \A k \in 1..n : turns[k] \in Turn BY LenProperties, ElementOfSeq DEF TypeOK
<1>2. step \in [(1..n) \X Seq(Turn) -> Seq(Turn)] BY <1>1, AppendProperties
<1>3. \A k \in 1..n, x \in Seq(Turn) :
        step[<<k, x>>] = IF Diarized(turns[k]) THEN Append(x, turns[k]) ELSE x
  OBVIOUS
<1>7. DiarizedTurns = f[n] BY DEF DiarizedTurns
<1> HIDE DEF step, n
<1>a. <<>> \in Seq(Turn) BY EmptySeq
<1>b. n \in Nat BY <1>1
<1>c. PICK g \in [0..n -> Seq(Turn)] : UpTo(g, n, <<>>, step) BY <1>a, <1>b, <1>2, UpToExists
<1>4. g[0] = <<>> /\ \A k \in 1..n : g[k] = step[<<k, g[k - 1]>>] BY <1>c DEF UpTo
<1>5. Selects(g)
  <2>1. \A k \in 1..n : k - 1 \in 0..n BY <1>1
  <2>2. \A k \in 1..n :
          g[k] = IF Diarized(turns[k]) THEN Append(g[k - 1], turns[k]) ELSE g[k - 1]
    BY <1>3, <1>4, <2>1
  <2>3. \A k \in 0..n :
          g[k] = IF k = 0 THEN <<>>
                 ELSE IF Diarized(turns[k]) THEN Append(g[k - 1], turns[k]) ELSE g[k - 1]
    <3> TAKE k \in 0..n
    <3>1. k = 0 \/ k \in 1..n BY <1>1
    <3>2. CASE k = 0 BY <1>4, <3>2
    <3>3. CASE k \in 1..n
      <4>1. k # 0 BY <3>3
      <4> QED BY <2>2, <3>3, <4>1
    <3> QED BY <3>1, <3>2, <3>3
  <2> QED BY <2>3
<1>6. Selects(f) BY <1>5
<1> HIDE DEF f
<1>8. f[0] = <<>> BY <1>1, <1>6
<1>9. \A k \in 1..n :
        f[k] = IF Diarized(turns[k]) THEN Append(f[k - 1], turns[k]) ELSE f[k - 1]
  <2> TAKE k \in 1..n
  <2>1. k \in 0..n /\ k # 0 BY <1>1
  <2> QED BY <1>6, <2>1
<1>10. \A k \in 0..n : f[k] \in Seq(Turn)
  <2> DEFINE bad == {k \in 0..n : f[k] \notin Seq(Turn)}
  <2>1. SUFFICES ASSUME bad # {} PROVE FALSE OBVIOUS
  <2>2. bad \in SUBSET Nat OBVIOUS
  <2>3. PICK k \in bad : \A j \in bad : k <= j BY <2>1, <2>2, LeastNat
  <2>4. k # 0 BY <1>8, <1>a, <2>3
  <2>5. k \in 1..n /\ k - 1 \in 0..n /\ k - 1 \notin bad BY <1>1, <2>3, <2>4
  <2>6. f[k - 1] \in Seq(Turn) BY <2>5
  <2>7. f[k] = f[k - 1] \/ f[k] = Append(f[k - 1], turns[k]) BY <1>9, <2>5
  <2>8. turns[k] \in Turn BY <1>1, <2>5
  <2>9. Append(f[k - 1], turns[k]) \in Seq(Turn) BY <2>6, <2>8, AppendProperties
  <2> QED BY <2>3, <2>6, <2>7, <2>9
<1> QED BY <1>1, <1>7, <1>10

LEMMA LineSizesTyped ==
    ASSUME NEW ts \in Seq(Turn), NEW caps \in Caps
    PROVE  LineSizes(ts, caps) \in Seq(Nat)
<1>1. Len(ts) \in Nat /\ DOMAIN ts = 1..Len(ts) BY LenProperties
<1>2. \A i \in 1..Len(ts) : 1 + Least(ts[i].size, caps.perLine) \in Nat
  <2> TAKE i \in 1..Len(ts)
  <2>a. ts[i] \in Turn BY ElementOfSeq
  <2>1. ts[i].size \in Nat /\ caps.perLine \in Nat BY <2>a DEF Turn, Caps
  <2> QED BY <2>1 DEF Least
<1>3. LineSizes(ts, caps) \in [1..Len(ts) -> Nat] BY <1>1, <1>2 DEF LineSizes
<1> QED BY <1>1, <1>3, SeqDef

\* A non-empty set of numbers up to n has a greatest one.
LEMMA GreatestBelow ==
    ASSUME NEW n \in Nat, NEW S \in SUBSET (0..n), S # {}
    PROVE  MaxOf(S) \in S /\ \A x \in S : x <= MaxOf(S)
<1> DEFINE M == {n - x : x \in S}
<1>1. M \in SUBSET Nat /\ M # {}
  <2>1. \A x \in S : n - x \in Nat OBVIOUS
  <2>2. PICK x \in S : TRUE OBVIOUS
  <2>3. n - x \in M OBVIOUS
  <2> QED BY <2>1, <2>3
<1>2. PICK m \in M : \A y \in M : m <= y BY <1>1, LeastNat
<1>3. PICK x \in S : m = n - x BY <1>2
<1>4. \A y \in S : y <= x
  <2> TAKE y \in S
  <2>1. n - x <= n - y BY <1>2, <1>3
  <2>2. x \in 0..n /\ y \in 0..n OBVIOUS
  <2> QED BY <2>1, <2>2
<1> QED BY <1>4 DEF MaxOf

LEMMA LongestPrompt ==
    ASSUME NEW lines \in Seq(Nat), NEW caps \in Caps
    PROVE  PromptIsLongest(lines, caps)
<1> DEFINE n == Least(Len(lines), caps.lines)
           S == {1} \cup {j \in 1..n : Length(lines, j) < caps.chars}
           k == LinesKept(lines, caps)
<1>1. Len(lines) \in Nat /\ caps.lines \in Nat \ {0} /\ caps.chars \in Nat \ {0}
  BY LenProperties DEF Caps
<1>2. n \in Nat /\ n <= Len(lines) /\ n <= caps.lines /\ (Len(lines) > 0 => n >= 1)
      /\ (n = Len(lines) \/ n = caps.lines)
  BY <1>1 DEF Least
<1>3. \A j \in 0..Len(lines) : Length(lines, j) \in Int BY LengthTyped
<1>4. lines # <<>> => Len(lines) > 0 BY <1>1, EmptySeq
<1>5. k = IF Length(lines, n) <= caps.chars THEN n ELSE MaxOf(S) BY DEF LinesKept
<1> HIDE DEF n, k
<1>6. CASE Length(lines, n) <= caps.chars
  <2>1. k = n BY <1>5, <1>6
  <2> QED BY <1>1, <1>2, <1>4, <1>6, <2>1 DEF PromptIsLongest, k
<1>7. CASE ~(Length(lines, n) <= caps.chars)
  <2>1. k = MaxOf(S) BY <1>5, <1>7
  <2>2. n # 0
    <3>1. Length(lines, 0) = -1 BY LengthTyped
    <3> QED BY <1>1, <1>7, <3>1
  <2>3. n >= 1 BY <1>2, <2>2
  <2>4. S \in SUBSET (0..n) /\ S # {} BY <1>2, <2>3
  <2>5. k \in S /\ \A x \in S : x <= k BY <1>2, <2>1, <2>4, GreatestBelow
  <2>6. k \in 1..n BY <1>2, <2>3, <2>5
  <2>7. k > 1 => Length(lines, k) <= caps.chars
    <3> HAVE k > 1
    <3>1. Length(lines, k) < caps.chars BY <2>5
    <3>2. Length(lines, k) \in Int BY <1>1, <1>2, <1>3, <2>6
    <3> QED BY <1>1, <3>1, <3>2
  <2>8. ASSUME k < Len(lines), k < caps.lines PROVE Length(lines, k + 1) >= caps.chars
    <3>1. k + 1 \in 1..n BY <1>1, <1>2, <2>6, <2>8
    <3>2. k + 1 \notin S BY <2>5, <2>6
    <3>3. ~(Length(lines, k + 1) < caps.chars) BY <3>1, <3>2
    <3>4. Length(lines, k + 1) \in Int BY <1>1, <1>2, <1>3, <3>1
    <3> QED BY <1>1, <3>3, <3>4
  <2> QED BY <1>1, <1>2, <2>6, <2>7, <2>8 DEF PromptIsLongest, k
<1> QED BY <1>6, <1>7

-----------------------------------------------------------------------------
(***************************************************************************)
(* The theorems                                                            *)
(***************************************************************************)

LEMMA InitIInv == Init => IInv
<1> SUFFICES ASSUME Init PROVE IInv OBVIOUS
<1> USE DEF Init
<1>1. TypeOK
  BY EmptySeq DEF TypeOK, Verdict, Nothing, Intent, Result, Department
<1>2. DOMAIN turns = {} /\ DOMAIN heard = {} /\ Len(turns) = 0 OBVIOUS
<1>3. Merging
  BY <1>2 DEF Merging, TurnsSpan, TurnsInOrder, NothingLost, TimesRise, AudibleAt
<1>4. TurnsFit /\ NoRolesYet BY <1>2 DEF TurnsFit, NoRolesYet
<1>5. SplitsFounded BY <1>2 DEF SplitsFounded
<1>6. RolesFollowSpeakers /\ VerdictIsFounded BY DEF RolesFollowSpeakers, VerdictIsFounded
<1> QED BY <1>1, <1>3, <1>4, <1>5, <1>6 DEF IInv

LEMMA NextIInv == IInv /\ [Next]_vars => IInv'
<1> SUFFICES ASSUME IInv, [Next]_vars PROVE IInv' OBVIOUS
<1> USE DEF IInv
<1>1. CASE \E u \in Utterances : Hear(u)
  <2>1. PICK u \in Utterances : Hear(u) BY <1>1
  <2>2. TypeOK' BY <2>1, HearTyped
  <2>3. TurnsSpan' BY <2>1, HearSpans DEF Merging
  <2>4. TurnsInOrder' BY <2>1, HearInOrder DEF Merging
  <2>5. NothingLost' BY <2>1, HearLosesNothing DEF Merging
  <2>6. TimesRise' BY <2>1, TimesStillRise DEF Merging
  <2>7. TurnsFit' /\ NoRolesYet' BY <2>1, HearFits, HearNoRoles
  <2>8. SplitsFounded' BY <2>1, HearSplits DEF Merging
  <2>9. RolesFollowSpeakers' /\ VerdictIsFounded'
    BY <2>1 DEF Hear, RolesFollowSpeakers, VerdictIsFounded
  <2> QED BY <2>2, <2>3, <2>4, <2>5, <2>6, <2>7, <2>8, <2>9 DEF Merging
<1>2. CASE Summarize
  <2>1. UNCHANGED <<heard, turns, roleBy, answer, verdict>> /\ stage = "listening"
        /\ stage' = "spoken" /\ turns # <<>>
    BY <1>2 DEF Summarize
  <2>2. TypeOK' BY <2>1 DEF TypeOK
  <2>3. Merging'
    BY <2>1 DEF Merging, TurnsSpan, TurnsInOrder, NothingLost, TimesRise, AudibleAt, Forgotten
  <2>4. TurnsFit' /\ SplitsFounded' BY <2>1 DEF TurnsFit, SplitsFounded, Apart
  <2>5. NoRolesYet' BY <2>1 DEF NoRolesYet
  <2>6. RolesFollowSpeakers' /\ VerdictIsFounded' BY <2>1 DEF RolesFollowSpeakers, VerdictIsFounded
  <2> QED BY <2>2, <2>3, <2>4, <2>5, <2>6
<1>3. CASE Labels
  <2>1. TypeOK' /\ Merging' /\ TurnsFit' /\ SplitsFounded' BY <1>3, LabelsKeepMerging
  <2>2. RolesFollowSpeakers' BY <1>3, LabelsGiveRoles
  <2>3. stage' = "labelled" BY <1>3, LabelsKeepTurns
  <2>4. NoRolesYet' /\ VerdictIsFounded' BY <2>3 DEF NoRolesYet, VerdictIsFounded
  <2> QED BY <2>1, <2>2, <2>4
<1>4. CASE ForgetTurns
  <2>1. turns' = <<>> /\ UNCHANGED <<heard, stage, roleBy, answer, verdict>> /\ stage = "labelled"
    BY <1>4 DEF ForgetTurns
  <2>2. DOMAIN turns' = {} /\ Len(turns') = 0 BY <2>1
  <2>3. TypeOK' BY <2>1, EmptySeq DEF TypeOK
  <2>4. Merging'
    <3>1. Forgotten' BY <2>1 DEF Forgotten
    <3>2. TimesRise' BY <2>1 DEF Merging, TimesRise
    <3> QED BY <2>2, <3>1, <3>2 DEF Merging, TurnsSpan, TurnsInOrder, NothingLost
  <2>5. TurnsFit' /\ NoRolesYet' /\ RolesFollowSpeakers'
    BY <2>2 DEF TurnsFit, NoRolesYet, RolesFollowSpeakers
  <2>6. SplitsFounded' BY <2>2 DEF SplitsFounded
  <2>7. VerdictIsFounded' BY <2>1 DEF VerdictIsFounded
  <2> QED BY <2>3, <2>4, <2>5, <2>6, <2>7
<1>5. CASE (\E raw \in Answers : ClassifyByModel(raw)) \/ ClassifyByKeywords
  <2>1. /\ TypeOK' /\ VerdictIsFounded' /\ UNCHANGED <<heard, turns, roleBy>>
        /\ stage = "labelled" /\ stage' = "classified"
    BY <1>5, Classifies
  <2>2. Merging'
    BY <2>1 DEF Merging, TurnsSpan, TurnsInOrder, NothingLost, TimesRise, AudibleAt, Forgotten
  <2>3. TurnsFit' /\ SplitsFounded' BY <2>1 DEF TurnsFit, SplitsFounded, Apart
  <2>4. NoRolesYet' BY <2>1 DEF NoRolesYet
  <2>5. RolesFollowSpeakers' BY <2>1 DEF RolesFollowSpeakers
  <2> QED BY <2>1, <2>2, <2>3, <2>4, <2>5
<1>6. CASE UNCHANGED vars
  <2>1. UNCHANGED <<heard, turns, stage, roleBy, answer, verdict>> BY <1>6 DEF vars
  <2>2. TypeOK' BY <2>1 DEF TypeOK
  <2>3. Merging'
    BY <2>1 DEF Merging, TurnsSpan, TurnsInOrder, NothingLost, TimesRise, AudibleAt, Forgotten
  <2>4. TurnsFit' /\ SplitsFounded' BY <2>1 DEF TurnsFit, SplitsFounded, Apart
  <2>5. NoRolesYet' /\ RolesFollowSpeakers' BY <2>1 DEF NoRolesYet, RolesFollowSpeakers
  <2>6. VerdictIsFounded' BY <2>1 DEF VerdictIsFounded, CuesHeard
  <2> QED BY <2>2, <2>3, <2>4, <2>5, <2>6
<1> QED BY <1>1, <1>2, <1>3, <1>4, <1>5, <1>6 DEF Next, Labels

\* The invariant these theorems rest on holds in every reachable state.
LEMMA Invariance == Spec => []IInv
<1> QED BY InitIInv, NextIInv, PTL DEF Spec

\* State is what the types say it is.
THEOREM Typing == Spec => []TypeOK
<1>1. IInv => TypeOK BY DEF IInv
<1> QED BY <1>1, Invariance, PTL

\* toTurns: every utterance with a text is in exactly one turn, of its speaker, that covers
\* it, and turns come in the order things were said; assignRoles moves nothing.
THEOREM MergingLosesNothing == Spec => []EveryWordOnce
<1>1. IInv => EveryWordOnce
  <2> SUFFICES ASSUME IInv PROVE EveryWordOnce OBVIOUS
  <2>1. \A k \in DOMAIN turns : turns[k].said \subseteq AudibleAt
    BY DEF IInv, Merging, TurnsSpan, Spans, AudibleAt
  <2>2. ~Forgotten => UNION {turns[k].said : k \in DOMAIN turns} = AudibleAt
    BY <2>1 DEF IInv, Merging, NothingLost
  <2>3. ASSUME NEW k \in DOMAIN turns, NEW i \in turns[k].said
        PROVE  turns[k].start <= heard[i].start
    <3>1. PICK f \in turns[k].said : turns[k].start = heard[f].start /\ f <= i
      BY <2>3 DEF IInv, Merging, TurnsSpan, Spans
    <3>2. f \in DOMAIN heard /\ i \in DOMAIN heard /\ heard[i].start # NoTime
      BY <2>1, <2>3 DEF AudibleAt, Audible
    <3>3. DOMAIN heard = 1..Len(heard) /\ Len(heard) \in Nat BY LenProperties DEF IInv, TypeOK
    <3>4. heard[i] \in Utterance BY <3>2, <3>3, ElementOfSeq, UtteranceAssumption DEF IInv, TypeOK
    <3>5. heard[i].start \in Int BY <3>4 DEF Utterance, NoTime
    <3>6. CASE f = i BY <3>1, <3>5, <3>6
    <3>7. CASE f < i BY <3>1, <3>2, <3>7 DEF IInv, Merging, TimesRise
    <3> QED BY <3>1, <3>2, <3>3, <3>6, <3>7
  <2> QED BY <2>2, <2>3 DEF EveryWordOnce, IInv, Merging, TurnsSpan, Spans, TurnsInOrder
<1> QED BY <1>1, Invariance, PTL

\* canMerge: only one utterance alone exceeds the limit on characters, and a speaker goes on
\* in a new turn only after too long a silence or if the next utterance would not have fitted.
THEOREM MergingIsMaximal == Spec => []TurnsAreMaximal
<1>1. IInv => TurnsAreMaximal
  <2> SUFFICES ASSUME IInv PROVE TurnsAreMaximal OBVIOUS
  <2>1. ASSUME NEW k \in DOMAIN turns
        PROVE  turns[k].size <= MaxChars \/ Cardinality(turns[k].said) = 1
    <3>1. CASE \E i \in Nat : turns[k].said = {i} BY <3>1, FS_Singleton
    <3> QED BY <3>1 DEF IInv, TurnsFit
  <2>2. ASSUME NEW k \in 1..(Len(turns) - 1)
        PROVE  LET t == turns[k]
                   first == CHOOSE i \in turns[k + 1].said : \A j \in turns[k + 1].said : i <= j
               IN t.speaker = turns[k + 1].speaker =>
                      \/ heard[first].start - t.end > MaxGap
                      \/ t.size + 1 + heard[first].size > MaxChars
    <3> DEFINE said == turns[k + 1].said
               first == CHOOSE i \in said : \A j \in said : i <= j
    <3>1. Len(turns) \in Nat /\ DOMAIN turns = 1..Len(turns) BY LenProperties DEF IInv, TypeOK
    <3>2. k + 1 \in DOMAIN turns BY <3>1, <2>2
    <3>3. Spans(turns[k + 1], heard) BY <3>2 DEF IInv, Merging, TurnsSpan
    <3>4. \E i \in said : \A j \in said : i <= j BY <3>3 DEF Spans
    <3>5. first \in said /\ \A j \in said : first <= j BY <3>4
    <3> HIDE DEF first
    <3>6. Apart(turns[k], first) BY <2>2, <3>5 DEF IInv, SplitsFounded
    <3>7. turns[k + 1].speaker = heard[first].speaker BY <3>3, <3>5 DEF Spans
    <3> QED BY <3>6, <3>7 DEF Apart, first
  <2> QED BY <2>1, <2>2 DEF TurnsAreMaximal
<1> QED BY <1>1, Invariance, PTL

\* assignRoles: a speaker has one role throughout and none if he was not told apart, and the
\* heuristic names one salesperson and one client or nobody.
THEOREM RolesStayWithSpeakers == Spec => []RolesFollowSpeakers
<1>1. IInv => RolesFollowSpeakers BY DEF IInv
<1> QED BY <1>1, Invariance, PTL

\* classifyConversation: an answer the prompt offers is stored as it is but for the labels the
\* maps have not got, and the keyword fallback concludes only what it has heard cues for.
THEOREM VerdictsHaveReasons == Spec => []VerdictIsFounded
<1>1. IInv => VerdictIsFounded BY DEF IInv
<1> QED BY <1>1, Invariance, PTL

\* buildSequentialSample and buildLabeledSequentialSample: a prompt holds the longest beginning
\* of the conversation in whole lines that the caps allow.
THEOREM PromptsHoldWhatFits == Spec => []PromptsAreLongest
<1>1. IInv => PromptsAreLongest
  <2> SUFFICES ASSUME IInv PROVE PromptsAreLongest OBVIOUS
  <2>1. TypeOK /\ turns \in Seq(Turn) BY DEF IInv, TypeOK
  <2>2. SequentialLines \in Seq(Nat)
    BY <2>1, DiarizedTurnsTyped, LineSizesTyped, PromptAssumption DEF SequentialLines
  <2>3. LabeledLines \in Seq(Nat)
    BY <2>1, LineSizesTyped, PromptAssumption DEF LabeledLines
  <2> QED BY <2>2, <2>3, LongestPrompt, PromptAssumption DEF PromptsAreLongest
<1> QED BY <1>1, Invariance, PTL

===========================================================================
