---------------------------- MODULE QueriesProofs ----------------------------
(***************************************************************************)
(* Theorems about the questions put to the stored data and about what a    *)
(* conversation remembers.                                                 *)
(***************************************************************************)
EXTENDS Queries, AlgorithmProofs

-----------------------------------------------------------------------------
(* What a conversation keeps.                                              *)

Roles == {"human", "ai", "tool", "note", "seed"}

Messages ==
  [role : Roles, turn : Nat, text : Seq(Nat), calls : Seq(Callable),
   covers : SUBSET (Roles \X Nat)]

TalkTyped ==
  /\ DOMAIN talk = DOMAIN NewTalk
  /\ talk.turn \in Nat
  /\ talk.messages \in Seq(Messages)
  /\ talk.media \in Seq(Seq(Nat))
  /\ \A i \in 1 .. Len(talk.messages) : talk.messages[i].turn <= talk.turn
  /\ talk.screened \subseteq 0 .. talk.turn
  /\ talk.finished \subseteq 0 .. talk.turn
  /\ talk.node = "tools" => talk.messages # <<>>

\* Before the graph runs, the reader's message is the only one of its turn.
MessageArrived ==
  talk.node = "normalize_input" =>
    /\ talk.messages # <<>>
    /\ Last(talk.messages).role = "human" /\ Last(talk.messages).turn = talk.turn
    /\ Last(talk.messages).text # <<>> \/ talk.media # <<>>
    /\ \A i \in 1 .. Len(talk.messages) - 1 : talk.messages[i].turn < talk.turn

\* A turn is finished after its answer was screened.
AnswerScreened ==
  /\ talk.node \notin {"compact", "end", "broken"} => talk.turn \notin talk.finished
  /\ talk.node = "guardrail_out" =>
       /\ talk.messages # <<>>
       /\ Last(talk.messages).role = "ai" /\ Last(talk.messages).turn = talk.turn
       /\ Last(talk.messages).text # <<>>

TalkInv == TalkTyped /\ MessageArrived /\ AnswerScreened /\ TalkIsKept

\* What counts as said: the messages with words or calls, and what they cover.
LEMMA SaidMember ==
  ASSUME NEW messages, NEW line
  PROVE  line \in Said(messages) <=>
           \E i \in DOMAIN messages :
             /\ messages[i].text # <<>> \/ messages[i].calls # <<>>
             /\ line = <<messages[i].role, messages[i].turn>> \/ line \in messages[i].covers
BY DEF Said

\* A history that goes on says all it said before.
LEMMA SaidGoesOn ==
  ASSUME NEW messages, NEW longer,
         \A i \in DOMAIN messages :
           /\ i \in DOMAIN longer
           /\ longer[i].role = messages[i].role /\ longer[i].turn = messages[i].turn
           /\ longer[i].covers = messages[i].covers /\ longer[i].calls = messages[i].calls
           /\ messages[i].text # <<>> => longer[i].text # <<>>
  PROVE  Said(messages) \subseteq Said(longer)
<1>1. SUFFICES ASSUME NEW line \in Said(messages) PROVE line \in Said(longer)
  OBVIOUS
<1>2. PICK i \in DOMAIN messages :
        /\ messages[i].text # <<>> \/ messages[i].calls # <<>>
        /\ line = <<messages[i].role, messages[i].turn>> \/ line \in messages[i].covers
  BY SaidMember
<1>3. /\ longer[i].text # <<>> \/ longer[i].calls # <<>>
      /\ line = <<longer[i].role, longer[i].turn>> \/ line \in longer[i].covers
  BY <1>2
<1> QED
  BY <1>2, <1>3, SaidMember

\* What the graph writes itself holds nothing to redact.
LEMMA LabelHoldsNothing ==
  /\ <<Label>> \in Seq(Nat) /\ <<>> \in Seq(Nat) /\ <<Label>> # <<>>
  /\ Secret \notin ToSet(<<Label>>) /\ Secret \notin ToSet(<<>>)
BY TalkAssumption DEF TalkAssumption, ToSet

\* A message of the turn under way is a message.
LEMMA MessageTyped ==
  ASSUME TalkTyped, NEW role \in Roles, NEW text \in Seq(Nat), NEW calls \in Seq(Callable), NEW m,
         m = Message(role, text, calls)
  PROVE  /\ m \in Messages
         /\ m.role = role /\ m.turn = talk.turn /\ m.text = text /\ m.calls = calls
<1>1. {} \in SUBSET (Roles \X Nat) /\ talk.turn \in Nat
  BY DEF TalkTyped
<1> QED
  BY <1>1 DEF Message, Messages

\* So is one with another turn, other words, or something it covers.
LEMMA MessageRetimed ==
  ASSUME NEW m \in Messages, NEW turn \in Nat, NEW r, r = [m EXCEPT !.turn = turn]
  PROVE  r \in Messages /\ r.turn = turn /\ r.role = m.role /\ r.text = m.text
BY DEF Messages

\* A message with another text.
LEMMA MessageRewritten ==
  ASSUME NEW m \in Messages, NEW text \in Seq(Nat), NEW r, r = [m EXCEPT !.text = text]
  PROVE  /\ r \in Messages /\ r.text = text /\ r.role = m.role /\ r.turn = m.turn
         /\ r.calls = m.calls /\ r.covers = m.covers
BY DEF Messages

\* A message that stands for others.
LEMMA MessageCovering ==
  ASSUME NEW m \in Messages, NEW covers \in SUBSET (Roles \X Nat), NEW r,
         r = [m EXCEPT !.covers = covers]
  PROVE  /\ r \in Messages /\ r.covers = covers /\ r.role = m.role /\ r.turn = m.turn
         /\ r.text = m.text
BY DEF Messages

\* A message the graph adds, of the turn under way.
LEMMA AddKeeps ==
  ASSUME TalkInv, NEW m \in Messages, NEW node, Add(m, node),
         m.turn = talk.turn, m.text \in {<<>>, <<Label>>}, talk.turn \notin talk.finished,
         node # "normalize_input",
         node = "guardrail_out" => m.role = "ai" /\ m.text = <<Label>>
  PROVE  TalkInv'
<1> DEFINE before == talk.messages
           after == Append(before, m)
<1>1. /\ talk'.node = node /\ talk'.turn = talk.turn /\ talk'.messages = after
      /\ talk'.media = talk.media /\ talk'.screened = talk.screened
      /\ talk'.finished = talk.finished /\ DOMAIN talk' = DOMAIN talk
  BY DEF TalkInv, TalkTyped, NewTalk, Add
<1>2. /\ before \in Seq(Messages) /\ after \in Seq(Messages)
      /\ Len(after) = Len(before) + 1 /\ after[Len(after)] = m
      /\ \A i \in 1 .. Len(before) : after[i] = before[i]
  BY DEF TalkInv, TalkTyped
<1>3. Said(before) \subseteq Said(after)
  <2> HIDE DEF after, before
  <2>1. \A i \in DOMAIN before : i \in DOMAIN after /\ after[i] = before[i]
    BY <1>2
  <2> QED
    BY <2>1, SaidGoesOn
<1>4. TalkTyped'
  BY <1>1, <1>2 DEF TalkInv, TalkTyped
<1>5. MessageArrived' /\ AnswerScreened'
  <2>1. after # <<>> /\ Last(after) = m
    BY <1>2 DEF Last
  <2> HIDE DEF after
  <2> QED
    BY <1>1, <2>1, LabelHoldsNothing DEF MessageArrived, AnswerScreened
<1>6. TalkIsKept'
  <2>1. \A i \in DOMAIN after : after[i].turn \in talk.screened => Secret \notin ToSet(after[i].text)
    BY <1>2, LabelHoldsNothing, SMTT(30) DEF TalkInv, TalkIsKept
  <2> HIDE DEF after
  <2> QED
    BY <1>1, <1>3, <2>1 DEF TalkInv, TalkIsKept
<1> QED
  BY <1>4, <1>5, <1>6 DEF TalkInv

\* A node that leaves the messages alone.
LEMMA MoveKeeps ==
  ASSUME TalkInv, NEW node, talk' = [talk EXCEPT !.node = node],
         node \notin {"normalize_input", "tools", "guardrail_out"},
         node # "broken" => talk.turn \notin talk.finished
  PROVE  TalkInv'
<1>1. /\ talk'.node = node /\ talk'.turn = talk.turn /\ talk'.messages = talk.messages
      /\ talk'.media = talk.media /\ talk'.screened = talk.screened
      /\ talk'.finished = talk.finished /\ DOMAIN talk' = DOMAIN talk
  BY DEF TalkInv, TalkTyped, NewTalk
<1> QED
  BY <1>1 DEF TalkInv, TalkTyped, MessageArrived, AnswerScreened, TalkIsKept

\* A text is never empty once the attachments are folded in.
LEMMA CombinedText ==
  ASSUME NEW typed \in Seq(Nat), NEW parts \in Seq(Seq(Nat))
  PROVE  LET text == ScreenInput(CombineInputText(typed, parts))
         IN  /\ text \in Seq(Nat)
             /\ typed # <<>> \/ parts # <<>> => text # <<>>
             /\ Secret \notin ToSet(text)
<1> DEFINE labelled == [i \in DOMAIN parts |-> <<Label>> \o parts[i]]
           all == FlattenSeq(labelled)
           joined == CombineInputText(typed, parts)
<1>1. labelled \in Seq(Seq(Nat)) /\ Len(labelled) = Len(parts)
      /\ \A i \in 1 .. Len(parts) : labelled[i] = <<Label>> \o parts[i]
  <2>1. DOMAIN parts = 1 .. Len(parts) /\ Len(parts) \in Nat
    OBVIOUS
  <2>2. \A i \in 1 .. Len(parts) : parts[i] \in Seq(Nat)
    OBVIOUS
  <2>3. \A i \in 1 .. Len(parts) : <<Label>> \o parts[i] \in Seq(Nat)
    BY <2>2, LabelHoldsNothing
  <2>4. labelled \in [1 .. Len(parts) -> Seq(Nat)]
    BY <2>1, <2>3
  <2>5. labelled \in Seq(Seq(Nat)) /\ Len(labelled) = Len(parts)
    <3> HIDE DEF labelled
    <3> QED
      BY <2>1, <2>4, FunctionIsSeq
  <2> QED
    BY <2>1, <2>5
<1>2. all \in Seq(Nat)
      /\ \A x : Has(all, x) <=> \E i \in 1 .. Len(labelled) : Has(labelled[i], x)
  <2> HIDE DEF labelled
  <2> QED
    BY <1>1, FlattenSeqContents
<1>3. joined = typed \o all
  BY DEF CombineInputText
<1>4. joined \in Seq(Nat)
  <2> HIDE DEF all, joined
  <2> QED
    BY <1>2, <1>3
<1>5. typed # <<>> \/ parts # <<>> => joined # <<>>
  <2> HIDE DEF all, labelled
  <2>1. ASSUME typed # <<>> PROVE joined # <<>>
    BY <1>2, <1>3, <2>1
  <2>2. ASSUME parts # <<>> PROVE joined # <<>>
    <3>1. 1 \in 1 .. Len(labelled)
      BY <1>1, <2>2
    <3>2. Len(labelled[1]) \in Nat /\ 1 \in 1 .. Len(labelled[1])
      BY <1>1, <3>1, LabelHoldsNothing
    <3>3. Has(labelled[1], labelled[1][1])
      BY <3>2 DEF Has
    <3>4. PICK k \in 1 .. Len(all) : all[k] = labelled[1][1]
      BY <1>2, <3>1, <3>3 DEF Has
    <3>5. Len(all) # 0
      BY <3>4
    <3> QED
      BY <1>2, <1>3, <3>5
  <2> QED
    BY <2>1, <2>2
<1>6. /\ ScreenInput(joined) \in Seq(Nat) /\ DOMAIN ScreenInput(joined) = DOMAIN joined
      /\ \A i \in DOMAIN joined :
           ScreenInput(joined)[i] = IF joined[i] = Secret THEN Redacted ELSE joined[i]
  <2> HIDE DEF joined
  <2> QED
    BY <1>4, TalkAssumption DEF TalkAssumption, ScreenInput
<1>7. joined # <<>> => ScreenInput(joined) # <<>>
  <2> HIDE DEF joined
  <2> QED
    BY <1>4, <1>6
<1>8. Secret \notin ToSet(ScreenInput(joined))
  <2> HIDE DEF joined
  <2> QED
    BY <1>6, TalkAssumption DEF TalkAssumption, ToSet
<1> QED
  BY <1>5, <1>6, <1>7, <1>8

\* What a turn starts from: everything said before stays on the record.
LEMMA SayKeeps ==
  ASSUME TalkInv, Say
  PROVE  TalkInv'
<1>1. PICK typed \in Typed, parts \in Attached :
        /\ typed # <<>> \/ parts # <<>>
        /\ talk' = [talk EXCEPT !.turn = @ + 1, !.rounds = 0, !.node = "normalize_input",
                     !.media = parts,
                     !.messages = Append(@, [Message("human", typed, <<>>)
                                               EXCEPT !.turn = talk.turn + 1])]
  BY DEF Say
<1> DEFINE m == [Message("human", typed, <<>>) EXCEPT !.turn = talk.turn + 1]
           before == talk.messages
           after == Append(before, m)
<1>2. /\ m \in Messages /\ m.role = "human" /\ m.turn = talk.turn + 1 /\ m.text = typed
  <2>1. talk.turn + 1 \in Nat /\ typed \in Seq(Nat)
    BY TalkAssumption DEF TalkAssumption, TalkInv, TalkTyped
  <2>2. PICK b : b = Message("human", typed, <<>>)
    OBVIOUS
  <2>3. b \in Messages /\ b.role = "human" /\ b.text = typed
    <3> HIDE DEF m, before, after
    <3> QED
      BY <2>1, <2>2 DEF Message, Messages, TalkInv, TalkTyped, Roles
  <2>4. m = [b EXCEPT !.turn = talk.turn + 1]
    BY <2>2
  <2> HIDE DEF m
  <2> QED
    BY <2>1, <2>3, <2>4, MessageRetimed
<1> HIDE DEF m
<1>3. /\ talk'.node = "normalize_input" /\ talk'.turn = talk.turn + 1 /\ talk'.messages = after
      /\ talk'.media = parts /\ talk'.screened = talk.screened
      /\ talk'.finished = talk.finished /\ DOMAIN talk' = DOMAIN talk
  BY <1>1 DEF TalkInv, TalkTyped, NewTalk, m
<1>4. /\ before \in Seq(Messages) /\ after \in Seq(Messages)
      /\ Len(after) = Len(before) + 1 /\ after[Len(after)] = m
      /\ \A i \in 1 .. Len(before) : after[i] = before[i] /\ before[i].turn <= talk.turn
  BY <1>2 DEF TalkInv, TalkTyped
<1>5. Said(before) \subseteq Said(after)
  <2> HIDE DEF after, before
  <2>1. \A i \in DOMAIN before : i \in DOMAIN after /\ after[i] = before[i]
    BY <1>4
  <2> QED
    BY <2>1, SaidGoesOn
<1>6. talk.turn \in Nat /\ talk.turn + 1 \notin talk.screened /\ talk.turn + 1 \notin talk.finished
      /\ \A i \in 1 .. Len(before) : before[i].turn \in Nat
  <2>1. talk.turn \in Nat /\ talk.turn + 1 \notin 0 .. talk.turn
    BY DEF TalkInv, TalkTyped
  <2>2. \A i \in 1 .. Len(before) : before[i] \in Messages
    BY <1>4
  <2> QED
    BY <2>1, <2>2 DEF TalkInv, TalkTyped, Messages
<1>7. TalkTyped'
  <2>1. \A i \in 1 .. Len(after) : after[i].turn <= talk.turn + 1
    BY <1>2, <1>4, <1>6
  <2>2. talk.screened \subseteq 0 .. talk.turn + 1 /\ talk.finished \subseteq 0 .. talk.turn + 1
    BY <1>6 DEF TalkInv, TalkTyped
  <2>3. parts \in Seq(Seq(Nat))
    BY TalkAssumption DEF TalkAssumption
  <2> HIDE DEF after
  <2> QED
    BY <1>3, <1>4, <1>6, <2>1, <2>2, <2>3 DEF TalkInv, TalkTyped
<1>8. MessageArrived' /\ AnswerScreened'
  <2>1. after # <<>> /\ Last(after) = m
    BY <1>4 DEF Last
  <2>2. \A i \in 1 .. Len(after) - 1 : after[i].turn < talk.turn + 1
    BY <1>4, <1>6
  <2> HIDE DEF after
  <2> QED
    BY <1>1, <1>2, <1>3, <1>6, <2>1, <2>2 DEF MessageArrived, AnswerScreened
<1>9. TalkIsKept'
  <2>1. \A i \in DOMAIN after : after[i].turn \in talk.screened => Secret \notin ToSet(after[i].text)
    BY <1>2, <1>4, <1>6 DEF TalkInv, TalkIsKept
  <2> HIDE DEF after
  <2> QED
    BY <1>3, <1>5, <2>1 DEF TalkInv, TalkIsKept
<1> QED
  BY <1>7, <1>8, <1>9 DEF TalkInv

\* The reader's message, rewritten in place, is still his.
LEMMA NormalizeInputKeeps ==
  ASSUME TalkInv, NormalizeInput
  PROVE  TalkInv'
<1> DEFINE before == talk.messages
           n == Len(before)
           text == ScreenInput(CombineInputText(before[n].text, talk.media))
           m == [before[n] EXCEPT !.text = text]
           after == [before EXCEPT ![n] = m]
<1>1. /\ before \in Seq(Messages) /\ n \in 1 .. n /\ n \in Nat /\ before[n] \in Messages
      /\ before[n].role = "human" /\ before[n].turn = talk.turn
      /\ before[n].text # <<>> \/ talk.media # <<>>
      /\ \A i \in 1 .. n - 1 : before[i].turn < talk.turn
  BY DEF NormalizeInput, TalkInv, TalkTyped, MessageArrived, Last
<1>2. talk.media \in Seq(Seq(Nat)) /\ before[n].text \in Seq(Nat)
  BY <1>1 DEF TalkInv, TalkTyped, Messages
<1>3. text \in Seq(Nat) /\ text # <<>> /\ Secret \notin ToSet(text)
  BY <1>1, <1>2, CombinedText
<1>4. /\ talk'.node = "guardrail_in" /\ talk'.turn = talk.turn /\ talk'.messages = after
      /\ talk'.media = <<>> /\ talk'.screened = talk.screened \cup {talk.turn}
      /\ talk'.finished = talk.finished /\ DOMAIN talk' = DOMAIN talk
  BY DEF NormalizeInput, TalkInv, TalkTyped, NewTalk
<1> HIDE DEF text
<1>5. /\ m \in Messages /\ m.text = text /\ m.role = "human" /\ m.turn = talk.turn
      /\ m.calls = before[n].calls /\ m.covers = before[n].covers
  <2> HIDE DEF before
  <2>1. PICK r : r = m
    OBVIOUS
  <2> QED
    BY <1>1, <1>3, <2>1, MessageRewritten
<1> HIDE DEF m
<1>6. /\ after \in Seq(Messages) /\ Len(after) = n /\ after[n] = m
      /\ DOMAIN after = DOMAIN before /\ DOMAIN before = 1 .. n
      /\ \A i \in 1 .. n : i # n => after[i] = before[i] /\ i \in 1 .. n - 1
  BY <1>1, <1>5
<1> HIDE DEF after
<1>7. Said(before) \subseteq Said(after)
  <2> HIDE DEF before, n
  <2>1. ASSUME NEW i \in DOMAIN before
        PROVE  /\ i \in DOMAIN after
               /\ after[i].role = before[i].role /\ after[i].turn = before[i].turn
               /\ after[i].covers = before[i].covers /\ after[i].calls = before[i].calls
               /\ before[i].text # <<>> => after[i].text # <<>>
    BY <1>1, <1>3, <1>5, <1>6
  <2> QED
    BY <2>1, SaidGoesOn
<1>8. <<"human", talk.turn>> \in Said(after)
  BY <1>1, <1>3, <1>5, <1>6, SaidMember
<1>9. TalkTyped'
  <2>1. \A i \in 1 .. Len(after) : after[i].turn <= talk.turn
    BY <1>1, <1>5, <1>6 DEF TalkInv, TalkTyped
  <2>2. talk.turn \in Nat /\ talk.turn \in 0 .. talk.turn
    BY DEF TalkInv, TalkTyped
  <2> QED
    BY <1>4, <1>6, <2>1, <2>2 DEF TalkInv, TalkTyped
<1>10. MessageArrived' /\ AnswerScreened'
  BY <1>4 DEF MessageArrived, AnswerScreened, TalkInv, NormalizeInput
<1>11. TalkIsKept'
  <2>1. ASSUME NEW i \in DOMAIN after, after[i].turn \in talk.screened \cup {talk.turn}
        PROVE  Secret \notin ToSet(after[i].text)
    <3>1. CASE i = n
      BY <1>3, <1>5, <1>6, <3>1
    <3>2. CASE i # n
      <4>1. after[i] = before[i] /\ i \in 1 .. n - 1 /\ i \in DOMAIN before
        BY <1>6, <3>2
      <4>2. before[i].turn < talk.turn /\ before[i] \in Messages /\ talk.turn \in Nat
        BY <1>1, <4>1 DEF TalkInv, TalkTyped
      <4>3. before[i].turn # talk.turn
        BY <4>2 DEF Messages
      <4> QED
        BY <2>1, <4>1, <4>3 DEF TalkInv, TalkIsKept
    <3> QED
      BY <3>1, <3>2
  <2> QED
    BY <1>4, <1>7, <1>8, <2>1 DEF TalkInv, TalkIsKept
<1> QED
  BY <1>9, <1>10, <1>11 DEF TalkInv

\* The answer or the calls the model proposes join the talk.
LEMMA GenerateKeeps ==
  ASSUME TalkInv, Generate
  PROVE  TalkInv'
<1>1. TalkTyped /\ talk.turn \notin talk.finished /\ "ai" \in Roles
  BY DEF Generate, TalkInv, AnswerScreened, Roles
<1>2. ASSUME NEW calls \in Proposals, NEW text \in {<<>>, <<Label>>},
             Add(Message("ai", text, calls), "tools")
      PROVE  TalkInv'
  <2>1. PICK m : m = Message("ai", text, calls)
    OBVIOUS
  <2>2. text \in Seq(Nat) /\ calls \in Seq(Callable)
    BY LabelHoldsNothing, TalkAssumption DEF TalkAssumption
  <2>3. m \in Messages /\ m.turn = talk.turn /\ m.text = text
    BY <1>1, <2>1, <2>2 DEF Message, Messages, TalkTyped
  <2> QED
    BY <1>1, <1>2, <2>1, <2>3, AddKeeps
<1>3. ASSUME Add(Message("ai", <<Label>>, <<>>), "guardrail_out")
      PROVE  TalkInv'
  <2>1. PICK m : m = Message("ai", <<Label>>, <<>>)
    OBVIOUS
  <2>2. m \in Messages /\ m.turn = talk.turn /\ m.text = <<Label>> /\ m.role = "ai"
    BY <1>1, <2>1, LabelHoldsNothing DEF Message, Messages, TalkTyped
  <2> QED
    BY <1>1, <1>3, <2>1, <2>2, AddKeeps
<1> QED
  BY <1>2, <1>3 DEF Generate

\* A note in front of the answer.
LEMMA NoteKeeps ==
  ASSUME TalkInv, NEW node, Add(Message("note", <<Label>>, <<>>), node),
         talk.turn \notin talk.finished, node \notin {"normalize_input", "guardrail_out"}
  PROVE  TalkInv'
<1>1. PICK m : m = Message("note", <<Label>>, <<>>)
  OBVIOUS
<1>2. m \in Messages /\ m.turn = talk.turn /\ m.text = <<Label>>
  BY <1>1, LabelHoldsNothing DEF Message, Messages, TalkInv, TalkTyped, Roles
<1> QED
  BY <1>1, <1>2, AddKeeps

\* Each call of the model is answered by a message of its own.
LEMMA RunToolsKeeps ==
  ASSUME TalkInv, RunTools
  PROVE  TalkInv'
<1> DEFINE before == talk.messages
           calls == Last(before).calls
           results == [i \in DOMAIN calls |-> Message("tool", <<Label>>, <<>>)]
           after == before \o results
<1>1. /\ talk'.node = "generate" /\ talk'.turn = talk.turn /\ talk'.messages = after
      /\ talk'.media = talk.media /\ talk'.screened = talk.screened
      /\ talk'.finished = talk.finished /\ DOMAIN talk' = DOMAIN talk
  BY DEF RunTools, TalkInv, TalkTyped, NewTalk
<1>2. before \in Seq(Messages)
  BY DEF TalkInv, TalkTyped
<1>3. PICK m : m = Message("tool", <<Label>>, <<>>)
  OBVIOUS
<1>4. m \in Messages /\ m.turn = talk.turn /\ m.text = <<Label>>
  BY <1>3, LabelHoldsNothing DEF Message, Messages, TalkInv, TalkTyped, Roles
<1>5. /\ results \in Seq({m}) /\ after \in Seq(Messages)
      /\ \A i \in 1 .. Len(before) : i \in 1 .. Len(after) /\ after[i] = before[i]
      /\ \A i \in 1 .. Len(after) : i \in 1 .. Len(before) \/ after[i] = m
  <2>1. calls \in Seq(Callable)
    <3>1. Len(before) \in 1 .. Len(before)
      BY <1>2 DEF RunTools, TalkInv, TalkTyped
    <3>2. Last(before) \in Messages
      BY <1>2, <3>1 DEF Last
    <3> HIDE DEF before
    <3> QED
      BY <3>2 DEF Messages
  <2>2. Len(calls) \in Nat /\ DOMAIN calls = 1 .. Len(calls)
    <3> HIDE DEF calls
    <3> QED
      BY <2>1
  <2>3. results \in [1 .. Len(calls) -> {m}]
    BY <1>3, <2>2
  <2>4. results \in Seq({m}) /\ Len(results) = Len(calls)
    <3> HIDE DEF results, calls
    <3> QED
      BY <2>2, <2>3, FunctionIsSeq
  <2>5. results \in Seq(Messages)
    <3> HIDE DEF results, calls
    <3>1. {m} \subseteq Messages
      BY <1>4
    <3> QED
      BY <2>4, <3>1, SeqMonotonic
  <2> HIDE DEF results, before
  <2>6. \A i \in 1 .. Len(results) : results[i] = m
    BY <2>4
  <2> QED
    BY <1>2, <2>4, <2>5, <2>6
<1> HIDE DEF after
<1>6. Said(before) \subseteq Said(after)
  <2> HIDE DEF before
  <2>1. \A i \in DOMAIN before : i \in DOMAIN after /\ after[i] = before[i]
    BY <1>2, <1>5
  <2> QED
    BY <2>1, SaidGoesOn
<1>7. TalkTyped'
  <2>1. \A i \in 1 .. Len(after) : after[i].turn <= talk.turn
    BY <1>4, <1>5 DEF TalkInv, TalkTyped
  <2> QED
    BY <1>1, <1>5, <2>1 DEF TalkInv, TalkTyped
<1>8. MessageArrived' /\ AnswerScreened'
  BY <1>1 DEF MessageArrived, AnswerScreened, TalkInv, RunTools
<1>9. TalkIsKept'
  <2>1. \A i \in DOMAIN after : after[i].turn \in talk.screened => Secret \notin ToSet(after[i].text)
    <3>1. DOMAIN after = 1 .. Len(after) /\ DOMAIN before = 1 .. Len(before)
      BY <1>2, <1>5
    <3> HIDE DEF results, calls
    <3> QED
      BY <1>4, <1>5, <3>1, LabelHoldsNothing DEF TalkInv, TalkIsKept
  <2> QED
    BY <1>1, <1>6, <2>1 DEF TalkInv, TalkIsKept
<1> QED
  BY <1>7, <1>8, <1>9 DEF TalkInv

\* The summary a compaction leaves stands for all that was said.
LEMMA CompactedSays ==
  ASSUME TalkTyped
  PROVE  /\ Compacted(talk.messages) \in Seq(Messages) /\ Len(Compacted(talk.messages)) = 1
         /\ Compacted(talk.messages)[1].turn = talk.turn
         /\ Compacted(talk.messages)[1].text = <<Label>>
         /\ Said(talk.messages) \subseteq Said(Compacted(talk.messages))
<1> DEFINE said == Said(talk.messages)
<1>1. said \in SUBSET (Roles \X Nat)
  <2>1. SUFFICES ASSUME NEW line \in said PROVE line \in Roles \X Nat
    OBVIOUS
  <2>2. PICK i \in DOMAIN talk.messages :
          \/ line = <<talk.messages[i].role, talk.messages[i].turn>>
          \/ line \in talk.messages[i].covers
    BY SaidMember
  <2>3. talk.messages[i] \in Messages
    BY DEF TalkTyped
  <2> QED
    BY <2>2, <2>3 DEF Messages
<1>2. PICK b : b = Message("seed", <<Label>>, <<>>)
  OBVIOUS
<1>3. b \in Messages /\ b.turn = talk.turn /\ b.text = <<Label>>
  BY <1>2, LabelHoldsNothing DEF Message, Messages, TalkTyped, Roles
<1> HIDE DEF said
<1>4. PICK m : m = [b EXCEPT !.covers = said]
  OBVIOUS
<1>5. m \in Messages /\ m.turn = talk.turn /\ m.text = <<Label>> /\ m.covers = said
  BY <1>1, <1>3, <1>4, MessageCovering
<1>6. Compacted(talk.messages) = <<m>>
  BY <1>2, <1>4 DEF Compacted, Seed, said
<1>7. said \subseteq Said(<<m>>)
  <2>1. SUFFICES ASSUME NEW line \in said PROVE line \in Said(<<m>>)
    OBVIOUS
  <2>2. 1 \in DOMAIN <<m>> /\ <<m>>[1] = m
    OBVIOUS
  <2> QED
    BY <1>5, <2>2, LabelHoldsNothing, SaidMember
<1> QED
  BY <1>5, <1>6, <1>7 DEF said

\* A talk that is compacted covers what its notes replace.
LEMMA CompactKeeps ==
  ASSUME TalkInv, Compact
  PROVE  TalkInv'
<1> DEFINE after == IF CountTokens(talk.messages) < Budget THEN talk.messages
                    ELSE Compacted(talk.messages)
<1>1. /\ talk'.node = "end" /\ talk'.turn = talk.turn /\ talk'.messages = after
      /\ talk'.media = talk.media /\ talk'.screened = talk.screened
      /\ talk'.finished = talk.finished /\ DOMAIN talk' = DOMAIN talk
  BY DEF Compact, TalkInv, TalkTyped, NewTalk
<1>2. CASE CountTokens(talk.messages) < Budget
  <2>1. after = talk.messages
    BY <1>2
  <2> HIDE DEF after
  <2> QED
    BY <1>1, <1>2, <2>1 DEF TalkInv, TalkTyped, MessageArrived, AnswerScreened, TalkIsKept
<1>3. CASE ~ (CountTokens(talk.messages) < Budget)
  <2>1. after = Compacted(talk.messages)
    BY <1>3
  <2> HIDE DEF after
  <2>2. /\ after \in Seq(Messages) /\ Len(after) = 1
        /\ after[1].turn = talk.turn /\ after[1].text = <<Label>>
        /\ Said(talk.messages) \subseteq Said(after)
    BY <2>1, CompactedSays DEF TalkInv
  <2>3. \A i \in 1 .. Len(after) : i = 1
    BY <2>2
  <2>4. TalkTyped'
    BY <1>1, <2>2, <2>3 DEF TalkInv, TalkTyped
  <2>5. MessageArrived' /\ AnswerScreened'
    BY <1>1 DEF MessageArrived, AnswerScreened
  <2>6. TalkIsKept'
    <3>1. DOMAIN after = 1 .. Len(after)
      BY <2>2
    <3> QED
      BY <1>1, <2>2, <2>3, <3>1, LabelHoldsNothing DEF TalkInv, TalkIsKept
  <2> QED
    BY <2>4, <2>5, <2>6 DEF TalkInv
<1> QED
  BY <1>2, <1>3

\* A finished turn had its message and its screened answer.
LEMMA GuardrailOutKeeps ==
  ASSUME TalkInv, GuardrailOut
  PROVE  TalkInv'
<1>1. /\ talk'.node = "compact" /\ talk'.turn = talk.turn /\ talk'.messages = talk.messages
      /\ talk'.media = talk.media /\ talk'.screened = talk.screened
      /\ talk'.finished = talk.finished \cup {talk.turn} /\ DOMAIN talk' = DOMAIN talk
  BY DEF GuardrailOut, TalkInv, TalkTyped, NewTalk
<1>2. <<"ai", talk.turn>> \in Said(talk.messages)
  <2>1. Len(talk.messages) \in DOMAIN talk.messages
    BY DEF TalkInv, TalkTyped, AnswerScreened, GuardrailOut
  <2> QED
    BY <2>1, SaidMember DEF TalkInv, AnswerScreened, GuardrailOut, Last
<1>3. talk.turn \in 0 .. talk.turn
  BY DEF TalkInv, TalkTyped
<1> QED
  BY <1>1, <1>2, <1>3 DEF TalkInv, TalkTyped, MessageArrived, AnswerScreened, TalkIsKept

\* Every node of the turn graph keeps the talk as it was.
LEMMA TalkStepKeeps ==
  ASSUME TalkInv, TalkStep
  PROVE  TalkInv'
<1>1. CASE GuardrailIn
  <2>1. PICK node \in {"load_progress", "end"} : talk' = [talk EXCEPT !.node = node]
    BY <1>1 DEF GuardrailIn
  <2>2. talk.turn \notin talk.finished
    BY <1>1 DEF GuardrailIn, TalkInv, AnswerScreened
  <2> QED
    BY <2>1, <2>2, MoveKeeps
<1>2. CASE LoadProgress
  BY <1>2, NoteKeeps DEF LoadProgress, TalkInv, AnswerScreened
<1>3. CASE LoadMemories
  BY <1>3, NoteKeeps DEF LoadMemories, TalkInv, AnswerScreened
<1>4. CASE Plan
  BY <1>4, MoveKeeps DEF Plan, TalkInv, AnswerScreened
<1>5. CASE ExtractMemory
  <2>1. talk.turn \notin talk.finished
    BY <1>5 DEF ExtractMemory, TalkInv, AnswerScreened
  <2>2. CASE talk' = [talk EXCEPT !.node = "generate"]
    BY <2>1, <2>2, MoveKeeps
  <2>3. CASE Add(Message("note", <<Label>>, <<>>), "generate")
    BY <2>1, <2>3, NoteKeeps
  <2> QED
    BY <1>5, <2>2, <2>3 DEF ExtractMemory
<1>6. CASE GenerateRejected
  BY <1>6, MoveKeeps DEF GenerateRejected
<1>7. CASE BreakOff
  BY <1>7, MoveKeeps DEF BreakOff
<1> QED
  BY <1>1, <1>2, <1>3, <1>4, <1>5, <1>6, <1>7, SayKeeps, NormalizeInputKeeps, GenerateKeeps,
     RunToolsKeeps, GuardrailOutKeeps, CompactKeeps DEF TalkStep

\* Compaction forgets nothing that was said, and nothing a redactor knows stays
\* in a message that was screened, wherever turns break off and for any inputs
\* and bounds (graph.py:672-704, 1069-1090; compaction_service.py:75-147).
THEOREM TalkAlwaysKept == Spec => []TalkIsKept
<1>1. Init => TalkInv
  <2>1. SUFFICES ASSUME Init PROVE TalkInv
    OBVIOUS
  <2>2. talk = NewTalk
    BY <2>1 DEF Init
  <2> QED
    BY <2>2 DEF NewTalk, TalkInv, TalkTyped, MessageArrived, AnswerScreened, TalkIsKept
<1>2. TalkInv /\ [Next]_vars => TalkInv'
  <2>1. SUFFICES ASSUME TalkInv, [Next]_vars PROVE TalkInv'
    OBVIOUS
  <2>2. CASE UNCHANGED talk
    BY <2>1, <2>2 DEF TalkInv, TalkTyped, MessageArrived, AnswerScreened, TalkIsKept
  <2>3. CASE Talk
    BY <2>1, <2>3, TalkStepKeeps DEF Talk
  <2>4. UNCHANGED talk \/ Talk
    BY <2>1 DEF Next, vars, CallProgress, CallRetrieve, CallSummarize, CallRecall, CallRecommend,
      CallWebSearch, Calls, ReadOn, ResumeSummarize, ResumeApproval, Chunk, Stream, Report,
      Score, RecallNote, Computes
  <2> QED
    BY <2>2, <2>3, <2>4
<1>3. TalkInv => TalkIsKept
  BY DEF TalkInv
<1> QED
  BY <1>1, <1>2, <1>3, PTL DEF Spec

-----------------------------------------------------------------------------
(* Leaving the system.                                                     *)

\* What is kept of a call that may have to be approved.
Asked == {"tool", "query", "answer", "rows", "recent"}

\* What a call that waits for an approval has put to the reader: the query of
\* its own, or what the reading list it was run on suggests.
AskedWell ==
  outcome.kind = "tool_approval" =>
    /\ Asked \subseteq DOMAIN call /\ call = [f \in DOMAIN call |-> call[f]]
    /\ call.tool # "recommend" \/ call.query # Unset => outcome.asked = call.query
    /\ call.tool = "recommend" /\ call.query = Unset /\ rows = call.rows /\ recent = call.recent =>
         outcome.asked = DefaultWebQuery(Library)

\* How a call may leave the system, or be about to.
Leaving == {"tool_approval", "web"}

\* Only the gated tools ask to leave the system.
LEMMA ToolsStayInside ==
  /\ \A ctx, value : GetReadingProgress(ctx, value).kind \notin Leaving
  /\ \A ctx, score, value, unread, limit :
       RetrieveChunks(ctx, score, value, unread, limit).kind \notin Leaving
  /\ \A ctx, q : QueryLongTermMemory(ctx, q).kind \notin Leaving
  /\ \A ctx, value, first, last, answer :
       Summarize(ctx, value, first, last, answer).kind \notin Leaving
<1>1. NotAnId.kind \notin Leaving
  BY DEF NotAnId, Leaving
<1>2. ASSUME NEW ctx, NEW value PROVE GetReadingProgress(ctx, value).kind \notin Leaving
  BY <1>1 DEF GetReadingProgress, Leaving
<1>3. ASSUME NEW ctx, NEW score, NEW value, NEW unread, NEW limit
      PROVE  RetrieveChunks(ctx, score, value, unread, limit).kind \notin Leaving
  BY <1>1 DEF RetrieveChunks, Leaving
<1>4. ASSUME NEW ctx, NEW q PROVE QueryLongTermMemory(ctx, q).kind \notin Leaving
  BY <1>1 DEF QueryLongTermMemory, Leaving
<1>5. ASSUME NEW ctx, NEW value, NEW first, NEW last, NEW answer
      PROVE  Summarize(ctx, value, first, last, answer).kind \notin Leaving
  <2>1. ASSUME NEW d, NEW row, NEW from, NEW to
        PROVE  Recap(ctx, d, row, from, to).kind \notin Leaving
    BY DEF Recap, Leaving
  <2> QED
    BY <1>1, <2>1 DEF Summarize, Leaving
<1> QED
  BY <1>2, <1>3, <1>4, <1>5

\* Without an answer a gated call asks, with what it would send.
LEMMA AsksFirst ==
  /\ \A query : /\ WebSearch(query, None).kind = "tool_approval"
                /\ WebSearch(query, None).asked = query
  /\ \A ctx, web, query, limit :
       LET result == Recommend(ctx, web, query, limit, None)
       IN  /\ result.kind # "web"
           /\ result.kind = "tool_approval" =>
                result.asked = IF query # Unset THEN query ELSE DefaultWebQuery(ctx.library)
<1>1. ASSUME NEW query
      PROVE  /\ WebSearch(query, None).kind = "tool_approval"
             /\ WebSearch(query, None).asked = query
  BY DEF WebSearch, RequiresApproval
<1>2. ASSUME NEW ctx, NEW web, NEW query, NEW limit
      PROVE  LET result == Recommend(ctx, web, query, limit, None)
             IN  /\ result.kind # "web"
                 /\ result.kind = "tool_approval" =>
                      result.asked = IF query # Unset THEN query ELSE DefaultWebQuery(ctx.library)
  BY DEF Recommend, RecommendInside
<1> QED
  BY <1>1, <1>2

\* With an answer it sends what was proposed or the reader's edit, unless denied.
LEMMA SendsWhatWasAnswered ==
  /\ \A query, answer :
       LET result == WebSearch(query, answer)
       IN  /\ result.kind = "web" => /\ answer.decision # "deny"
                                     /\ \/ result.sent = query
                                        \/ answer.decision = "edit" /\ result.sent = answer.query
           /\ result.kind = "tool_approval" => result.asked = query
  /\ \A ctx, web, query, limit, answer :
       LET result == Recommend(ctx, web, query, limit, answer)
           proposed == IF query # Unset THEN query ELSE DefaultWebQuery(ctx.library)
       IN  /\ result.kind = "web" => /\ answer.decision # "deny"
                                     /\ \/ result.sent = proposed
                                        \/ answer.decision = "edit" /\ result.sent = answer.query
           /\ result.kind = "tool_approval" => result.asked = proposed
<1>1. ASSUME NEW query, NEW answer
      PROVE  LET result == WebSearch(query, answer)
             IN  /\ result.kind = "web" => /\ answer.decision # "deny"
                                           /\ \/ result.sent = query
                                              \/ /\ answer.decision = "edit"
                                                 /\ result.sent = answer.query
                 /\ result.kind = "tool_approval" => result.asked = query
  BY DEF WebSearch, RequiresApproval, Outside, Edited
<1>2. ASSUME NEW ctx, NEW web, NEW query, NEW limit, NEW answer
      PROVE  LET result == Recommend(ctx, web, query, limit, answer)
                 proposed == IF query # Unset THEN query ELSE DefaultWebQuery(ctx.library)
             IN  /\ result.kind = "web" => /\ answer.decision # "deny"
                                           /\ \/ result.sent = proposed
                                              \/ /\ answer.decision = "edit"
                                                 /\ result.sent = answer.query
                 /\ result.kind = "tool_approval" => result.asked = proposed
  <2> DEFINE proposed == IF query # Unset THEN query ELSE DefaultWebQuery(ctx.library)
             internal == RecommendFromLibrary(ctx.library, limit)
  <2>1. Recommend(ctx, web, query, limit, answer) =
          IF ~web \/ proposed = Unset THEN RecommendInside(internal)
          ELSE IF answer = None
               THEN [kind |-> "tool_approval", internal |-> internal, asked |-> proposed]
          ELSE IF answer.decision = "deny" THEN RecommendInside(internal)
          ELSE Outside(internal, Edited(proposed, answer))
    BY DEF Recommend
  <2> HIDE DEF proposed, internal
  <2>2. LET result == Recommend(ctx, web, query, limit, answer)
        IN  /\ result.kind = "web" => /\ answer.decision # "deny"
                                      /\ \/ result.sent = proposed
                                         \/ /\ answer.decision = "edit"
                                            /\ result.sent = answer.query
            /\ result.kind = "tool_approval" => result.asked = proposed
    BY <2>1 DEF RecommendInside, Outside, Edited
  <2> QED
    BY <2>2 DEF proposed
<1> QED
  BY <1>1, <1>2

\* A call of another tool answers from inside; the same for a computation.
LEMMA OthersStayInside ==
  ASSUME \/ CallProgress \/ CallRetrieve \/ CallSummarize \/ CallRecall \/ ResumeSummarize
         \/ Chunk \/ Stream \/ Report \/ Score \/ RecallNote
  PROVE  outcome'.kind \notin Leaving
<1>1. ASSUME CallProgress PROVE outcome'.kind \notin Leaving
  BY <1>1, ToolsStayInside DEF CallProgress, Calls
<1>2. ASSUME CallRetrieve PROVE outcome'.kind \notin Leaving
  BY <1>2, ToolsStayInside DEF CallRetrieve, Calls
<1>3. ASSUME CallSummarize PROVE outcome'.kind \notin Leaving
  BY <1>3, ToolsStayInside DEF CallSummarize, Calls
<1>4. ASSUME CallRecall PROVE outcome'.kind \notin Leaving
  BY <1>4, ToolsStayInside DEF CallRecall, Calls
<1>5. ASSUME ResumeSummarize PROVE outcome'.kind \notin Leaving
  BY <1>5, ToolsStayInside DEF ResumeSummarize
<1>6. ASSUME Chunk PROVE outcome'.kind \notin Leaving
  BY <1>6 DEF Chunk, Computes, Leaving
<1>7. ASSUME Stream PROVE outcome'.kind \notin Leaving
  BY <1>7 DEF Stream, Computes, Leaving
<1>8. ASSUME Report PROVE outcome'.kind \notin Leaving
  <2>1. \E usage, analytics :
          outcome' = [kind |-> "report", usage |-> usage, analytics |-> analytics]
    BY <1>8, Zenon DEF Report, Computes
  <2> QED
    BY <2>1 DEF Leaving
<1>9. ASSUME Score PROVE outcome'.kind \notin Leaving
  BY <1>9 DEF Score, Computes, Leaving
<1>10. ASSUME RecallNote PROVE outcome'.kind \notin Leaving
  BY <1>10 DEF RecallNote, Computes, Leaving
<1> QED
  BY <1>1, <1>2, <1>3, <1>4, <1>5, <1>6, <1>7, <1>8, <1>9, <1>10

\* What a call keeps.
LEMMA CallKept ==
  ASSUME NEW args, NEW result, Calls(args, result)
  PROVE  /\ DOMAIN args \subseteq DOMAIN call' /\ {"rows", "recent"} \subseteq DOMAIN call'
         /\ call' = [f \in DOMAIN call' |-> call'[f]]
         /\ call'.rows = rows /\ call'.recent = recent
         /\ \A f \in DOMAIN args \ {"rows", "recent"} : call'[f] = args[f]
         /\ outcome' = result /\ UNCHANGED <<reader, rows, recent, talk>>
BY DEF Calls, Kept

\* The reading list a call draws on is that of the rows and the order.
LEMMA SameLibrary ==
  ASSUME UNCHANGED <<reader, rows, recent>> PROVE Library' = Library
<1>1. reader' = reader /\ rows' = rows /\ recent' = recent
  OBVIOUS
<1>2. Titles' = Titles
  BY <1>1 DEF Titles, Stored, Docs
<1>3. ASSUME NEW status PROVE InStatus(status)' = InStatus(status)
  BY <1>1 DEF InStatus, Filter, Keep, Ranked, Sorted
<1> QED
  BY <1>1, <1>2, <1>3 DEF Library

\* The context of a call carries the library of its user.
LEMMA ContextLibrary == Context.library = Library
BY DEF Context

\* A call of a gated tool is asked as it keeps it.
LEMMA AskedWhenCalled ==
  ASSUME CallRecommend \/ CallWebSearch
  PROVE  AskedWell' /\ outcome'.kind # "web"
<1>1. CASE CallRecommend
  <2>1. PICK web \in BOOLEAN, w \in Topics \cup {Unset}, limit \in Limits \ {Unset} :
          Calls([tool |-> "recommend", web |-> web, query |-> w, limit |-> limit,
                 answer |-> None],
                Recommend(Context, web, w, limit, None))
    BY <1>1 DEF CallRecommend
  <2>2. /\ call'.tool = "recommend" /\ call'.query = w
        /\ Asked \subseteq DOMAIN call' /\ call' = [f \in DOMAIN call' |-> call'[f]]
        /\ outcome' = Recommend(Context, web, w, limit, None)
        /\ UNCHANGED <<reader, rows, recent>>
    BY <2>1, CallKept DEF Asked
  <2> QED
    BY <2>2, AsksFirst, SameLibrary, ContextLibrary DEF AskedWell
<1>2. CASE CallWebSearch
  <2>1. PICK w \in Topics :
          Calls([tool |-> "web_search", query |-> w, answer |-> None], WebSearch(w, None))
    BY <1>2 DEF CallWebSearch
  <2>2. /\ call'.tool = "web_search" /\ call'.query = w /\ outcome' = WebSearch(w, None)
        /\ Asked \subseteq DOMAIN call' /\ call' = [f \in DOMAIN call' |-> call'[f]]
    BY <2>1, CallKept DEF Asked
  <2> QED
    BY <2>2, AsksFirst DEF AskedWell
<1> QED
  BY <1>1, <1>2

\* The reader's answer: what is sent is what was asked, or their edit of it,
\* unless the reading list changed; and a call that asks again asks what it sends.
LEMMA AskedWhenAnswered ==
  ASSUME ResumeApproval, AskedWell
  PROVE  /\ AskedWell'
         /\ outcome'.kind = "web" =>
              /\ outcome.kind = "tool_approval"
              /\ call'.answer.decision # "deny"
              /\ \/ outcome'.sent = outcome.asked
                 \/ call'.answer.decision = "edit" /\ outcome'.sent = call'.answer.query
                 \/ call.query = Unset /\ <<rows, recent>> # <<call.rows, call.recent>>
<1>1. PICK answer \in Answers :
        /\ outcome.kind = "tool_approval"
        /\ call' = [call EXCEPT !.answer = answer]
        /\ outcome' = IF call.tool = "recommend"
                      THEN Recommend(Context, call.web, call.query, call.limit, answer)
                      ELSE WebSearch(call.query, answer)
        /\ UNCHANGED <<reader, rows, recent, talk>>
  BY DEF ResumeApproval
<1>2. /\ call'.answer = answer /\ call'.tool = call.tool /\ call'.query = call.query
      /\ call'.rows = call.rows /\ call'.recent = call.recent
      /\ Asked \subseteq DOMAIN call' /\ call' = [f \in DOMAIN call' |-> call'[f]]
  BY <1>1 DEF AskedWell, Asked
<1>3. Library' = Library
  BY <1>1, SameLibrary
<1>4. CASE call.tool = "recommend"
  <2> DEFINE proposed == IF call.query # Unset THEN call.query ELSE DefaultWebQuery(Library)
  <2>1. outcome' = Recommend(Context, call.web, call.query, call.limit, answer)
    BY <1>1, <1>4
  <2>2. /\ outcome'.kind = "web" => /\ answer.decision # "deny"
                                    /\ \/ outcome'.sent = proposed
                                       \/ answer.decision = "edit" /\ outcome'.sent = answer.query
        /\ outcome'.kind = "tool_approval" => outcome'.asked = proposed
    BY <2>1, SendsWhatWasAnswered, ContextLibrary
  <2>3. proposed = outcome.asked \/ (call.query = Unset /\ ~(rows = call.rows /\ recent = call.recent))
    BY <1>1, <1>4 DEF AskedWell
  <2>4. AskedWell'
    BY <1>1, <1>2, <1>3, <2>2, <1>4 DEF AskedWell
  <2> QED
    BY <1>1, <1>2, <2>2, <2>3, <2>4
<1>5. CASE call.tool # "recommend"
  <2>1. outcome' = WebSearch(call.query, answer)
    BY <1>1, <1>5
  <2>2. outcome.asked = call.query
    BY <1>1, <1>5 DEF AskedWell
  <2>3. AskedWell'
    BY <1>2, <1>5, <2>1, SendsWhatWasAnswered DEF AskedWell
  <2> QED
    BY <1>1, <1>2, <2>1, <2>2, <2>3, SendsWhatWasAnswered
<1> QED
  BY <1>4, <1>5

\* The reading list read on during a pause.
LEMMA AskedWhileReading ==
  ASSUME ReadOn, AskedWell PROVE AskedWell' /\ outcome' = outcome
<1>1. rows = call.rows /\ recent = call.recent /\ UNCHANGED <<reader, call, outcome>>
  BY DEF ReadOn
<1>2. CASE rows' = rows /\ recent' = recent
  BY <1>1, <1>2, SameLibrary DEF AskedWell
<1>3. CASE ~(rows' = rows /\ recent' = recent)
  BY <1>1, <1>3 DEF AskedWell
<1> QED
  BY <1>1, <1>2, <1>3

\* Every step of the question keeps AskedWell and sends only what was shown.
LEMMA AskedStep ==
  ASSUME AskedWell, [Next]_vars
  PROVE  /\ AskedWell'
         /\ ~UNCHANGED vars /\ outcome'.kind = "web" =>
              /\ outcome.kind = "tool_approval"
              /\ call'.answer.decision # "deny"
              /\ \/ outcome'.sent = outcome.asked
                 \/ call'.answer.decision = "edit" /\ outcome'.sent = call'.answer.query
                 \/ call.query = Unset /\ <<rows, recent>> # <<call.rows, call.recent>>
<1>1. CASE \/ CallProgress \/ CallRetrieve \/ CallSummarize \/ CallRecall \/ ResumeSummarize
           \/ Chunk \/ Stream \/ Report \/ Score \/ RecallNote
  BY <1>1, OthersStayInside DEF AskedWell, Leaving
<1>2. CASE CallRecommend \/ CallWebSearch
  BY <1>2, AskedWhenCalled
<1>3. CASE ResumeApproval
  BY <1>3, AskedWhenAnswered
<1>4. CASE ReadOn
  <2>1. outcome.kind \in {"ask_pages_read", "tool_approval"}
    BY <1>4 DEF ReadOn, Paused
  <2> QED
    BY <1>4, <2>1, AskedWhileReading
<1>5. CASE Talk
  <2>1. UNCHANGED <<reader, rows, recent, call, outcome>> /\ outcome.kind = "idle"
    BY <1>5 DEF Talk, question, Idle
  <2> QED
    BY <2>1 DEF AskedWell
<1>6. CASE UNCHANGED vars
  <2>1. UNCHANGED <<reader, rows, recent, call, outcome>>
    BY <1>6 DEF vars, question
  <2>2. Library' = Library
    BY <2>1, SameLibrary
  <2> QED
    BY <1>6, <2>1, <2>2 DEF AskedWell
<1> QED
  BY <1>1, <1>2, <1>3, <1>4, <1>5, <1>6 DEF Next

\* Nothing is sent to the web that the reader was not shown.
THEOREM WebAlwaysShown == Spec => WebIsShown
<1>1. Init => AskedWell
  BY DEF Init, Idle, AskedWell
<1>2. AskedWell /\ [Next]_vars => AskedWell'
  BY AskedStep
<1>3. AskedWell /\ [Next]_vars =>
        [outcome'.kind = "web" =>
           /\ outcome.kind = "tool_approval"
           /\ call'.answer.decision # "deny"
           /\ \/ outcome'.sent = outcome.asked
              \/ call'.answer.decision = "edit" /\ outcome'.sent = call'.answer.query
              \/ call.query = Unset /\ <<rows, recent>> # <<call.rows, call.recent>>]_vars
  BY AskedStep
<1> QED
  BY <1>1, <1>2, <1>3, PTL DEF Spec, WebIsShown

-----------------------------------------------------------------------------
(* The points of a document.                                               *)

\* Every point has an id of its own and a page.
Located(points) ==
  /\ IsFiniteSet(points)
  /\ \A p \in points : p.id \in Nat \X Nat /\ {p.page_start, p.page_end} \subseteq Nat
  /\ \A p, q \in points : p.id = q.id => p = q

\* A question scores every one of the points.
Scored(points, score) == \A p \in points : score[p.id] \in Nat

\* The points of a document.
LEMMA PointsOfTyped ==
  ASSUME NEW d \in Nat, NEW owner, NEW chunks,
         DOMAIN chunks \in SUBSET Nat, IsFiniteSet(DOMAIN chunks),
         \A i \in DOMAIN chunks : IsChunk(chunks[i])
  PROVE  /\ Located(PointsOf(d, owner, chunks))
         /\ \A p \in PointsOf(d, owner, chunks) :
              p.document = d /\ p.id[1] = d /\ \E n \in Nat : p.text \in [1 .. n -> Nat]
<1> DEFINE f == [i \in DOMAIN chunks |->
                   [id |-> <<d, i>>, user |-> owner, document |-> d,
                    page_start |-> chunks[i].page_start, page_end |-> chunks[i].page_end,
                    chapter |-> Unset, section |-> Unset,
                    text |-> chunks[i].text, content_hash |-> chunks[i].content_hash]]
<1>1. PointsOf(d, owner, chunks) = {f[i] : i \in DOMAIN chunks}
  BY DEF PointsOf
<1>2. \A i \in DOMAIN chunks :
        /\ f[i].id = <<d, i>> /\ f[i].document = d /\ f[i].text = chunks[i].text
        /\ f[i].page_start = chunks[i].page_start /\ f[i].page_end = chunks[i].page_end
  OBVIOUS
<1> HIDE DEF f
<1>3. IsFiniteSet(PointsOf(d, owner, chunks))
  BY <1>1, FiniteImage
<1>4. ASSUME NEW p \in PointsOf(d, owner, chunks)
      PROVE  /\ p.id \in Nat \X Nat /\ {p.page_start, p.page_end} \subseteq Nat
             /\ p.document = d /\ p.id[1] = d /\ \E n \in Nat : p.text \in [1 .. n -> Nat]
  <2>1. PICK i \in DOMAIN chunks : p = f[i]
    BY <1>1
  <2>2. i \in Nat /\ IsChunk(chunks[i])
    OBVIOUS
  <2>3. /\ p.id = <<d, i>> /\ p.document = d /\ p.text = chunks[i].text
        /\ p.page_start = chunks[i].page_start /\ p.page_end = chunks[i].page_end
    BY <1>2, <2>1
  <2>4. p.id \in Nat \X Nat /\ p.id[1] = d
    BY <2>2, <2>3
  <2> QED
    BY <2>2, <2>3, <2>4 DEF IsChunk
<1>5. \A p, q \in PointsOf(d, owner, chunks) : p.id = q.id => p = q
  BY <1>1, <1>2
<1> QED
  BY <1>3, <1>4, <1>5 DEF Located

\* A reader's points, and what the words of a question score them.
LEMMA ShelfTyped ==
  ASSUME NEW r \in Readers
  PROVE  /\ Located(Shelf[r].points)
         /\ \A p \in Shelf[r].points : p.document \in Nat
         /\ \A w \in Words : Scored(Shelf[r].points, Shelf[r].scores[w])
         /\ \A d \in DOMAIN r.files :
              LET chunks == Shelf[r].passages[d]
              IN  /\ DOMAIN chunks \in SUBSET Nat /\ IsFiniteSet(DOMAIN chunks)
                  /\ \A i \in DOMAIN chunks : IsChunk(chunks[i])
<1> DEFINE passages == [d \in DOMAIN r.files |-> ChunkDocument(ParsePdf(r.files[d]), Size, Overlap)]
           F == [d \in DOMAIN r.files |-> PointsOf(d, r.owner[d], passages[d])]
           points == UNION {PointsOf(d, r.owner[d], passages[d]) : d \in DOMAIN r.files}
           ScoreOf(w) == [id \in {p.id : p \in points} |->
                          Occurrences(w, (CHOOSE p \in points : p.id = id).text)]
<1>1. r.files \in Seq(Seq(Seq(Nat)) \ {<<>>, Corrupt})
  BY ReadersAssumption
<1>2. DOMAIN r.files = 1 .. Len(r.files) /\ Len(r.files) \in Nat
  BY <1>1
<1>3. ASSUME NEW d \in DOMAIN r.files
      PROVE  /\ DOMAIN passages[d] \in SUBSET Nat /\ IsFiniteSet(DOMAIN passages[d])
             /\ \A i \in DOMAIN passages[d] : IsChunk(passages[d][i])
  <2>1. r.files[d] \in Seq(Seq(Nat)) \ {<<>>, Corrupt}
    BY <1>1
  <2>2. ParsePdf(r.files[d]) = r.files[d]
    BY <2>1 DEF ParsePdf
  <2>3. passages[d] = ChunkDocument(r.files[d], Size, Overlap)
    BY <2>2
  <2>4. Size \in Nat /\ Overlap \in Nat /\ ValidSizes(Size, Overlap)
    BY SizesAssumption
  <2> HIDE DEF passages
  <2> QED
    BY <2>1, <2>3, <2>4, ChunksTyped
<1>4. ASSUME NEW d \in DOMAIN r.files
      PROVE  /\ Located(F[d])
             /\ \A p \in F[d] :
                  p.document = d /\ p.id[1] = d /\ \E n \in Nat : p.text \in [1 .. n -> Nat]
  <2>1. d \in Nat /\ F[d] = PointsOf(d, r.owner[d], passages[d])
    BY <1>2
  <2>2. PICK chunks, owner : chunks = passages[d] /\ owner = r.owner[d]
    OBVIOUS
  <2> HIDE DEF passages, F
  <2>3. /\ Located(PointsOf(d, owner, chunks))
        /\ \A p \in PointsOf(d, owner, chunks) :
             p.document = d /\ p.id[1] = d /\ \E n \in Nat : p.text \in [1 .. n -> Nat]
    BY <1>3, <2>1, <2>2, PointsOfTyped
  <2> QED
    BY <2>1, <2>2, <2>3
<1>8. points = UNION {F[d] : d \in DOMAIN r.files}
  OBVIOUS
<1> HIDE DEF F, points
<1>5. Located(points)
  <2>1. IsFiniteSet(points)
    <3>1. PICK n \in Nat : n = Len(r.files)
      BY <1>2
    <3>2. \A d \in 1 .. n : IsFiniteSet(F[d])
      BY <1>2, <1>4, <3>1 DEF Located
    <3>3. points = UNION {F[d] : d \in 1 .. n}
      BY <1>2, <1>8, <3>1
    <3> QED
      BY <3>2, <3>3, FiniteUnion
  <2>2. \A p \in points : p.id \in Nat \X Nat /\ {p.page_start, p.page_end} \subseteq Nat
    BY <1>4, <1>8 DEF Located
  <2>3. \A p, q \in points : p.id = q.id => p = q
    BY <1>4, <1>8 DEF Located
  <2> QED
    BY <2>1, <2>2, <2>3 DEF Located
<1>6. ASSUME NEW w \in Words PROVE Scored(points, ScoreOf(w))
  <2> SUFFICES ASSUME NEW p \in points PROVE ScoreOf(w)[p.id] \in Nat
    BY DEF Scored
  <2>1. ScoreOf(w)[p.id] = Occurrences(w, (CHOOSE q \in points : q.id = p.id).text)
    OBVIOUS
  <2>2. (CHOOSE q \in points : q.id = p.id) = p
    BY <1>5 DEF Located
  <2>3. PICK n \in Nat : p.text \in [1 .. n -> Nat]
    BY <1>4, <1>8
  <2>4. Occurrences(w, p.text) \in Nat
    <3>1. {i \in DOMAIN p.text : p.text[i] = w} \in SUBSET (1 .. n)
      BY <2>3
    <3>2. IsFiniteSet(1 .. n)
      <4>1. 1 \in Int /\ n \in Int
        OBVIOUS
      <4> QED
        BY ONLY <4>1, FS_Interval
    <3> QED
      BY <3>1, <3>2, FS_Subset, FS_CardinalityType DEF Occurrences
  <2> QED
    BY <2>1, <2>2, <2>4
<1>7. /\ Shelf[r].passages = passages /\ Shelf[r].points = points
      /\ \A w \in Words : Shelf[r].scores[w] = ScoreOf(w)
  <2>1. Shelf[r] = Indexed(r)
    BY DEF Shelf
  <2>2. Indexed(r).passages = passages
    BY DEF Indexed
  <2>3. Indexed(r).points = points
    BY DEF Indexed, points
  <2>4. Indexed(r).scores = [w \in Words |-> ScoreOf(w)]
    BY DEF Indexed, points
  <2> QED
    BY <2>1, <2>2, <2>3, <2>4
<1>9. \A p \in points : p.document \in Nat
  BY <1>2, <1>4, <1>8
<1> HIDE DEF passages, ScoreOf
<1> QED
  BY <1>3, <1>5, <1>6, <1>7, <1>9

-----------------------------------------------------------------------------
(* Searching the collection.                                               *)

\* The order of a search is one.
LEMMA NearerOrders ==
  ASSUME NEW points, Located(points), NEW score, Scored(points, score), NEW S \in SUBSET points
  PROVE  StrictOrder(S, [x \in S |-> {y \in S : Nearer(score, y, x)}])
<1> DEFINE ahead == [x \in S |-> {y \in S : Nearer(score, y, x)}]
<1>1. ASSUME NEW p \in S
      PROVE  p.id \in Nat \X Nat /\ p.id[1] \in Nat /\ p.id[2] \in Nat /\ score[p.id] \in Nat
  <2>1. p.id \in Nat \X Nat
    BY DEF Located
  <2> QED
    BY <2>1 DEF Scored
<1>2. \A p, q \in S : p.id[1] = q.id[1] /\ p.id[2] = q.id[2] => p = q
  BY <1>1 DEF Located
<1>3. ahead \in [S -> SUBSET S]
  OBVIOUS
<1>4. \A x \in S : x \notin ahead[x]
  BY <1>1 DEF Nearer
<1>5. ASSUME NEW x \in S, NEW y \in ahead[x], NEW z \in ahead[y] PROVE z \in ahead[x]
  <2>1. y \in S /\ Nearer(score, y, x)
    BY <1>5
  <2>2. z \in S /\ Nearer(score, z, y)
    BY <1>5, <2>1
  <2>3. Nearer(score, z, x)
    BY <1>1, <2>1, <2>2 DEF Nearer
  <2> QED
    BY <2>2, <2>3
<1>6. ASSUME NEW x \in S, NEW y \in S, x # y PROVE x \in ahead[y] \/ y \in ahead[x]
  <2>1. Nearer(score, x, y) \/ Nearer(score, y, x)
    BY <1>1, <1>2, <1>6 DEF Nearer
  <2> QED
    BY <2>1
<1> QED
  BY <1>3, <1>4, <1>5, <1>6 DEF StrictOrder

\* A search finds the nearest points, in that order.
LEMMA SearchInOrder ==
  ASSUME NEW points, Located(points), NEW score, Scored(points, score), NEW f, NEW limit
  PROVE  LET S == Found(points, f)
         IN  /\ IsFiniteSet(S) /\ S \in SUBSET points
             /\ \E s : /\ Search(points, f, score, limit) = First(s, limit)
                       /\ InOrder(S, [x \in S |-> {y \in S : Nearer(score, y, x)}], s)
<1> DEFINE S == Found(points, f)
           ahead == [x \in S |-> {y \in S : Nearer(score, y, x)}]
           s == Sorted(S, LAMBDA p, q : Nearer(score, p, q))
<1>1. S \in SUBSET points
  BY DEF Found
<1>2. IsFiniteSet(S)
  BY <1>1, FS_Subset DEF Located
<1>3. StrictOrder(S, ahead)
  <2> HIDE DEF S
  <2> QED
    BY <1>1, NearerOrders
<1>4. s = [k \in 1 .. Cardinality(S) |->
             CHOOSE x \in S : Cardinality({y \in S : Nearer(score, y, x)}) = k - 1]
  BY DEF Sorted
<1>5. \A x \in S : ahead[x] = {y \in S : Nearer(score, y, x)}
  OBVIOUS
<1>6. Search(points, f, score, limit) = First(s, limit)
  BY DEF Search
<1> HIDE DEF S, s, ahead
<1>7. \A k \in 1 .. Cardinality(S) :
        \E x \in S : Cardinality({y \in S : Nearer(score, y, x)}) = k - 1
  <2> TAKE k \in 1 .. Cardinality(S)
  <2>1. PICK x \in S : Cardinality(ahead[x]) = k - 1
    BY <1>2, <1>3, RankIsTaken
  <2>2. Cardinality({y \in S : Nearer(score, y, x)}) = k - 1
    BY <1>5, <2>1
  <2> QED
    BY <2>2
<1>8. ByRank(S, ahead, s)
  <2>1. s \in [1 .. Cardinality(S) -> S]
    BY <1>4, <1>7
  <2>2. \A k \in 1 .. Cardinality(S) : Cardinality(ahead[s[k]]) = k - 1
    BY <1>4, <1>5, <1>7
  <2> QED
    BY <2>1, <2>2 DEF ByRank
<1>9. InOrder(S, ahead, s)
  BY <1>2, <1>3, <1>8, RanksInOrder
<1> QED
  BY <1>1, <1>2, <1>6, <1>9 DEF S, ahead

\* What a retrieval is bounded to.
LEMMA OpenIsFound ==
  ASSUME NEW points, Located(points), NEW row, CurrentPage(row) \in Nat, NEW ask
  PROVE  LET spoilerOn == ResolveSpoilerSafe(ask.override, Override(row), ask.default)
             bounded == ask.document # Unset /\ (spoilerOn \/ ~ask.include_unread)
             Read(p) == p.page_end # Unset /\ p.page_end <= CurrentPage(row)
             Mine(p) == p.user = ask.user /\ Match(p.document, ask.document)
                          /\ Match(p.chapter, ask.chapter) /\ Match(p.section, ask.section)
         IN  Found(points,
                   [user |-> ask.user, document |-> ask.document,
                    max_page_end |->
                      ReadRangeBound(row, ask.document, ask.include_unread, spoilerOn),
                    chapter |-> ask.chapter, section |-> ask.section])
               = {p \in points : Mine(p) /\ (bounded => Read(p))}
<1> DEFINE spoilerOn == ResolveSpoilerSafe(ask.override, Override(row), ask.default)
           bounded == ask.document # Unset /\ (spoilerOn \/ ~ask.include_unread)
           bound == ReadRangeBound(row, ask.document, ask.include_unread, spoilerOn)
<1>1. CurrentPage(row) # Unset
  BY UnsetAssumption
<1>2. (bound # Unset <=> bounded) /\ (bounded => bound = CurrentPage(row))
  BY <1>1 DEF ReadRangeBound
<1> HIDE DEF bound, bounded
<1>3. Found(points, [user |-> ask.user, document |-> ask.document, max_page_end |-> bound,
                     chapter |-> ask.chapter, section |-> ask.section])
        = {p \in points :
             /\ p.user = ask.user /\ Match(p.document, ask.document)
             /\ Match(p.chapter, ask.chapter) /\ Match(p.section, ask.section)
             /\ bounded => p.page_end # Unset /\ p.page_end <= CurrentPage(row)}
  BY <1>2 DEF Found
<1> QED
  BY <1>3 DEF bound, bounded

\* hits are, of the first elements of s, those with the texts, without the
\* copies of an earlier one.
FirstCopies(s, n, limit, texts, hits) ==
  \E at :
    /\ Picks(hits, s, at)
    /\ \A k \in 1 .. Len(hits) :
         /\ hits[k].id \in texts
         /\ \/ hits[k].content_hash = Unset
            \/ \A j \in 1 .. n : j < at[k] => s[j].content_hash # hits[k].content_hash
    /\ \A j \in 1 .. n : j <= limit =>
         \/ \E k \in 1 .. Len(hits) : at[k] = j
         \/ s[j].id \notin texts
         \/ \E i \in 1 .. n : i < j /\ s[i].content_hash = s[j].content_hash

\* A retrieval picks, of the points it is open to in the order of likeness, the
\* first of each content among those it looks at, if their texts are there.
LEMMA RetrievePicks ==
  ASSUME NEW S, IsFiniteSet(S), NEW s \in [1 .. Cardinality(S) -> S], NEW limit \in Nat, NEW texts
  PROVE  LET hits == Hydrate(CollapseDuplicates(First(s, limit)), texts)
         IN  hits \in Seq(S) /\ FirstCopies(s, Cardinality(S), limit, texts, hits)
<1> DEFINE h == First(s, limit)
           D == {i \in DOMAIN h : \/ h[i].content_hash = Unset
                                  \/ \A j \in 1 .. i - 1 : h[j].content_hash # h[i].content_hash}
           c == CollapseDuplicates(h)
           E == {i \in DOMAIN c : c[i].id \in texts}
           hits == Hydrate(c, texts)
<1>1. PICK n \in Nat : n = Cardinality(S)
  BY FS_CardinalityType
<1>2. s \in Seq(S) /\ Len(s) = n
  <2>1. s \in [1 .. n -> S]
    BY <1>1
  <2> QED
    BY <2>1, FunctionIsSeq
<1>3. /\ h \in Seq(S) /\ Len(h) = IF limit < n THEN limit ELSE n
      /\ \A i \in 1 .. Len(h) : h[i] = s[i]
  BY <1>2, FirstOf
<1>4. c = Keep(h, D) /\ hits = Keep(c, E)
  BY DEF CollapseDuplicates, Hydrate, Filter
<1> HIDE DEF h
<1>5. D \in SUBSET (1 .. Len(h)) /\ DOMAIN h = 1 .. Len(h) /\ Len(h) \in Nat
  BY <1>3
<1> HIDE DEF c
<1>6. PICK by : /\ c \in Seq(S) /\ Picks(c, h, by)
                /\ \A k \in 1 .. Len(c) : by[k] \in D
                /\ \A x \in D : \E k \in 1 .. Len(c) : by[k] = x
  <2> HIDE DEF D
  <2> QED
    BY <1>3, <1>4, <1>5, KeepPicks
<1>7. E \in SUBSET (1 .. Len(c)) /\ DOMAIN c = 1 .. Len(c) /\ Len(c) \in Nat
  BY <1>6
<1> HIDE DEF hits
<1>8. PICK of : /\ hits \in Seq(S) /\ Picks(hits, c, of)
                /\ \A k \in 1 .. Len(hits) : of[k] \in E
                /\ \A x \in E : \E k \in 1 .. Len(hits) : of[k] = x
  <2>1. c \in Seq(S)
    BY <1>6
  <2> HIDE DEF D, E
  <2> QED
    BY <1>4, <1>7, <2>1, KeepPicks
<1> DEFINE at == [k \in 1 .. Len(hits) |-> by[of[k]]]
<1>9. Picks(hits, h, at)
  <2>1. h \in Seq(S) /\ c \in Seq(S) /\ hits \in Seq(S) /\ Picks(c, h, by) /\ Picks(hits, c, of)
    BY <1>3, <1>6, <1>8
  <2> QED
    BY <2>1, PicksOfPicks
<1>10. Picks(hits, s, at) /\ \A k \in 1 .. Len(hits) : at[k] \in 1 .. Len(h)
  <2> HIDE DEF at
  <2>1. /\ at \in [1 .. Len(hits) -> 1 .. Len(h)]
        /\ \A i, j \in 1 .. Len(hits) : i < j => at[i] < at[j]
        /\ \A k \in 1 .. Len(hits) : hits[k] = h[at[k]]
    BY <1>9 DEF Picks
  <2>2. \A i \in 1 .. Len(h) : i \in 1 .. n /\ h[i] = s[i]
    BY <1>3
  <2>3. at \in [1 .. Len(hits) -> 1 .. n]
    BY <2>1, <2>2
  <2>4. \A k \in 1 .. Len(hits) : hits[k] = s[at[k]]
    BY <2>1, <2>2
  <2> QED
    BY <1>2, <2>1, <2>3, <2>4 DEF Picks
<1>11. ASSUME NEW k \in 1 .. Len(hits)
       PROVE  /\ hits[k].id \in texts
              /\ \/ hits[k].content_hash = Unset
                 \/ \A j \in 1 .. n : j < at[k] => s[j].content_hash # hits[k].content_hash
  <2>1. of[k] \in E /\ hits[k] = c[of[k]] /\ of[k] \in 1 .. Len(c)
    BY <1>8 DEF Picks
  <2>2. hits[k].id \in texts
    BY <2>1
  <2>3. at[k] \in D /\ at[k] = by[of[k]]
    BY <1>6, <2>1
  <2>4. hits[k] = h[at[k]] /\ at[k] \in 1 .. Len(h)
    BY <1>9, <1>10 DEF Picks
  <2>5. \/ hits[k].content_hash = Unset
        \/ \A j \in 1 .. at[k] - 1 : h[j].content_hash # hits[k].content_hash
    BY <2>3, <2>4
  <2>6. ASSUME NEW j \in 1 .. n, j < at[k] PROVE j \in 1 .. at[k] - 1 /\ h[j] = s[j]
    <3>1. j \in 1 .. at[k] - 1 /\ j \in 1 .. Len(h)
      BY <1>1, <1>5, <2>4, <2>6
    <3> QED
      BY <1>3, <3>1
  <2> QED
    BY <2>2, <2>5, <2>6
<1>12. ASSUME NEW j \in 1 .. n, j <= limit,
              s[j].id \in texts,
              ~ \E i \in 1 .. n : i < j /\ s[i].content_hash = s[j].content_hash
       PROVE  \E k \in 1 .. Len(hits) : at[k] = j
  <2>1. j \in 1 .. Len(h) /\ h[j] = s[j]
    BY <1>1, <1>3, <1>12
  <2>2. j \in D
    <3>1. ASSUME NEW i \in 1 .. j - 1 PROVE h[i].content_hash # h[j].content_hash
      <4>1. i \in 1 .. Len(h) /\ i \in 1 .. n /\ i < j
        BY <1>1, <1>5, <2>1
      <4>2. h[i] = s[i]
        BY <1>3, <4>1
      <4> QED
        BY <1>12, <2>1, <4>1, <4>2
    <3> QED
      BY <1>5, <2>1, <3>1
  <2>3. PICK m \in 1 .. Len(c) : by[m] = j
    BY <1>6, <2>2
  <2>4. c[m] = h[j]
    BY <1>6, <2>3 DEF Picks
  <2>5. m \in E
    BY <1>7, <1>12, <2>1, <2>4
  <2>6. PICK k \in 1 .. Len(hits) : of[k] = m
    BY <1>8, <2>5
  <2> QED
    BY <2>3, <2>6
<1> HIDE DEF at, D, E
<1> QED
  <2>1. FirstCopies(s, n, limit, texts, hits)
    BY <1>10, <1>11, <1>12 DEF FirstCopies
  <2> QED
    BY <1>1, <1>8, <2>1 DEF hits, c, h

\* What is retrieved is sound and complete.
LEMMA RetrieveIsSound ==
  ASSUME NEW points, Located(points), NEW score, Scored(points, score), NEW texts,
         NEW row, CurrentPage(row) \in Nat, NEW ask, ask.limit \in Nat
  PROVE  RetrievalIsSound(points, texts, score, row, ask,
                          Retrieve(points, texts, score, row, ask))
<1> DEFINE spoilerOn == ResolveSpoilerSafe(ask.override, Override(row), ask.default)
           bounded == ask.document # Unset /\ (spoilerOn \/ ~ask.include_unread)
           Read(p) == p.page_end # Unset /\ p.page_end <= CurrentPage(row)
           Mine(p) == p.user = ask.user /\ Match(p.document, ask.document)
                        /\ Match(p.chapter, ask.chapter) /\ Match(p.section, ask.section)
           open == {p \in points : Mine(p) /\ (bounded => Read(p))}
           f == [user |-> ask.user, document |-> ask.document,
                 max_page_end |->
                   ReadRangeBound(row, ask.document, ask.include_unread, spoilerOn),
                 chapter |-> ask.chapter, section |-> ask.section]
           hits == Retrieve(points, texts, score, row, ask)
           ahead == [x \in open |-> {y \in open : Nearer(score, y, x)}]
           n == Cardinality(open)
<1>1. Found(points, f) = open
  BY OpenIsFound
<1>2. hits = Hydrate(CollapseDuplicates(Search(points, f, score, ask.limit)), texts)
  BY DEF Retrieve
<1> HIDE DEF f, hits
<1>3. PICK s : /\ Search(points, f, score, ask.limit) = First(s, ask.limit)
               /\ InOrder(open, ahead, s)
  <2> HIDE DEF open
  <2> QED
    BY <1>1, SearchInOrder
<1>4. IsFiniteSet(open) /\ n \in Nat /\ open \in SUBSET points
  <2>1. open \in SUBSET points
    OBVIOUS
  <2> HIDE DEF open
  <2>2. IsFiniteSet(open)
    BY <1>1, SearchInOrder
  <2> QED
    BY <2>1, <2>2, FS_CardinalityType
<1>5. /\ s \in [1 .. n -> open]
      /\ \A i, j \in 1 .. n : i < j => s[i] \in ahead[s[j]] /\ s[i] # s[j]
      /\ \A x \in open : \E k \in 1 .. n : s[k] = x
  <2> HIDE DEF open, ahead
  <2> QED
    BY <1>3 DEF InOrder
<1>6. \A i, j \in 1 .. n : i < j => Nearer(score, s[i], s[j])
  <2> HIDE DEF open
  <2> QED
    BY <1>5
<1>7. PICK at :
        /\ hits \in Seq(open) /\ Picks(hits, s, at)
        /\ \A k \in 1 .. Len(hits) :
             /\ hits[k].id \in texts
             /\ \/ hits[k].content_hash = Unset
                \/ \A j \in 1 .. n : j < at[k] => s[j].content_hash # hits[k].content_hash
        /\ \A j \in 1 .. n : j <= ask.limit =>
             \/ \E k \in 1 .. Len(hits) : at[k] = j
             \/ s[j].id \notin texts
             \/ \E i \in 1 .. n : i < j /\ s[i].content_hash = s[j].content_hash
  <2>1. PICK limit \in Nat : limit = ask.limit
    OBVIOUS
  <2>2. hits = Hydrate(CollapseDuplicates(First(s, limit)), texts)
    BY <1>2, <1>3, <2>1
  <2>3. IsFiniteSet(open) /\ s \in [1 .. Cardinality(open) -> open]
    BY <1>4, <1>5
  <2> HIDE DEF open, ahead
  <2>4. LET found == Hydrate(CollapseDuplicates(First(s, limit)), texts)
        IN  found \in Seq(open) /\ FirstCopies(s, Cardinality(open), limit, texts, found)
    BY <2>3, RetrievePicks
  <2>5. hits \in Seq(open) /\ FirstCopies(s, n, limit, texts, hits)
    BY <2>2, <2>4
  <2> QED
    BY <2>1, <2>5 DEF FirstCopies
<1> HIDE DEF ahead
<1>8. DOMAIN hits = 1 .. Len(hits) /\ Len(hits) \in Nat
  BY <1>7
<1>9. Len(s) = n
  <2> HIDE DEF open
  <2> QED
    BY <1>4, <1>5, FunctionIsSeq
<1>10. /\ at \in [1 .. Len(hits) -> 1 .. n]
       /\ \A i, j \in 1 .. Len(hits) : i < j => at[i] < at[j]
       /\ \A k \in 1 .. Len(hits) : hits[k] = s[at[k]]
  BY <1>7, <1>9 DEF Picks
<1>11. ASSUME NEW i \in DOMAIN hits
       PROVE  Mine(hits[i]) /\ hits[i].id \in texts /\ (bounded => Read(hits[i]))
  <2>1. hits[i] \in open
    <3> HIDE DEF open
    <3> QED
      BY <1>7, <1>8
  <2> HIDE DEF Mine, Read, bounded
  <2> QED
    BY <1>7, <1>8, <2>1
<1>12. ASSUME NEW i \in DOMAIN hits, NEW j \in DOMAIN hits, i < j
       PROVE  /\ score[hits[i].id] >= score[hits[j].id]
              /\ hits[i].id # hits[j].id
              /\ hits[i].content_hash = Unset \/ hits[i].content_hash # hits[j].content_hash
  <2> HIDE DEF open
  <2>1. at[i] \in 1 .. n /\ at[j] \in 1 .. n /\ at[i] < at[j]
    BY <1>8, <1>10, <1>12
  <2>2. hits[i] = s[at[i]] /\ hits[j] = s[at[j]]
    BY <1>8, <1>10
  <2>3. Nearer(score, hits[i], hits[j]) /\ hits[i] # hits[j]
    BY <1>5, <1>6, <2>1, <2>2
  <2>4. hits[i] \in points /\ hits[j] \in points
    BY <1>4, <1>5, <2>1, <2>2
  <2>5. score[hits[i].id] >= score[hits[j].id]
    BY <2>3, <2>4 DEF Nearer, Scored
  <2>6. hits[i].id # hits[j].id
    BY <2>3, <2>4 DEF Located
  <2>7. hits[i].content_hash = Unset \/ hits[i].content_hash # hits[j].content_hash
    BY <1>7, <1>8, <2>1, <2>2
  <2> QED
    BY <2>5, <2>6, <2>7
<1>13. ASSUME Cardinality(open) <= ask.limit, NEW p \in open
       PROVE  \/ p.id \notin texts
              \/ p \in ToSet(hits)
              \/ \E q \in open : /\ q # p /\ q.content_hash = p.content_hash
                                 /\ score[q.id] >= score[p.id]
  <2> HIDE DEF open
  <2>1. PICK j \in 1 .. n : s[j] = p
    BY <1>5
  <2>2. j <= ask.limit
    BY <1>4, <1>13
  <2>3. CASE \E k \in 1 .. Len(hits) : at[k] = j
    BY <1>8, <1>10, <2>1, <2>3 DEF ToSet
  <2>4. CASE \E i \in 1 .. n : i < j /\ s[i].content_hash = s[j].content_hash
    <3>1. PICK i \in 1 .. n : i < j /\ s[i].content_hash = s[j].content_hash
      BY <2>4
    <3>2. Nearer(score, s[i], p) /\ s[i] # p /\ s[i] \in open /\ s[i] \in points /\ p \in points
      BY <1>4, <1>5, <1>6, <2>1, <3>1
    <3>3. score[s[i].id] >= score[p.id]
      BY <3>2 DEF Nearer, Scored
    <3> QED
      BY <2>1, <3>1, <3>2, <3>3
  <2> QED
    BY <1>7, <2>1, <2>2, <2>3, <2>4
<1> QED
  BY <1>11, <1>12, <1>13 DEF RetrievalIsSound, hits

-----------------------------------------------------------------------------
(* Recalling memories.                                                     *)

\* A reader's memories: each by its id, a summary of pages of a document.
Remembered(memories) ==
  /\ memories \in Seq(ToSet(memories))
  /\ \A i \in 1 .. Len(memories) : MemoryRow(memories[i])
  /\ \A i, j \in 1 .. Len(memories) : memories[i] = memories[j] => i = j

\* The places of the memories a search or a list of summaries is of.
Matching(memories, type, d, bound) ==
  {i \in 1 .. Len(memories) :
     /\ Match(memories[i].type, type) /\ Match(memories[i].document, d)
     /\ WithinBound(memories[i], bound)}

\* Those of the summaries of a document, when no question is asked.
Covering(memories, d, bound) ==
  {i \in 1 .. Len(memories) : /\ memories[i].document = d /\ memories[i].type = "summary"
                              /\ WithinBound(memories[i], bound)}

\* A search of the memories lists those that match and are read, by likeness.
LEMMA SearchMemoriesLists ==
  ASSUME NEW memories, memories \in Seq(ToSet(memories)), NEW score,
         \A i \in 1 .. Len(memories) : score[memories[i].id] \in Nat,
         NEW type, NEW d, NEW bound, NEW limit \in Nat
  PROVE  LET hits == SearchMemories(memories, score, type, d, bound, limit)
         IN  /\ hits \in Seq(ToSet(memories)) /\ Len(hits) <= limit
             /\ Lists(hits, memories, Matching(memories, type, d, bound), limit)
<1> DEFINE D == Matching(memories, type, d, bound)
           Before(i, j) == \/ score[memories[i].id] > score[memories[j].id]
                           \/ score[memories[i].id] = score[memories[j].id] /\ i < j
           at == Sorted(D, Before)
           major == [i \in D |-> 0 - score[memories[i].id]]
           minor == [i \in D |-> i]
           ahead == ByKeys(D, major, minor)
<1>1. DOMAIN memories = 1 .. Len(memories) /\ Len(memories) \in Nat
  OBVIOUS
<1>2. D \in SUBSET (1 .. Len(memories)) /\ IsFiniteSet(D)
  <2>1. 1 \in Int /\ Len(memories) \in Int
    BY <1>1
  <2>2. IsFiniteSet(1 .. Len(memories))
    BY ONLY <2>1, FS_Interval
  <2>3. D \in SUBSET (1 .. Len(memories))
    BY DEF Matching
  <2> HIDE DEF D
  <2> QED
    BY <2>2, <2>3, FS_Subset
<1>3. SearchMemories(memories, score, type, d, bound, limit)
        = First([k \in DOMAIN at |-> memories[at[k]]], limit)
  BY <1>1 DEF SearchMemories, Ranked, Matching
<1> HIDE DEF D
<1>4. StrictOrder(D, ahead)
  <2>1. \A i \in D : i \in Nat /\ score[memories[i].id] \in Nat
    BY <1>1, <1>2
  <2>2. major \in [D -> Int] /\ minor \in [D -> Int]
    BY <2>1
  <2>3. \A x, y \in D : major[x] = major[y] /\ minor[x] = minor[y] => x = y
    OBVIOUS
  <2> HIDE DEF major, minor
  <2> QED
    BY <2>2, <2>3, KeysOrder
<1>5. \A x \in D : {y \in D : Before(y, x)} = ahead[x]
  <2>1. \A i \in D : i \in Nat /\ score[memories[i].id] \in Nat
    BY <1>1, <1>2
  <2>2. ASSUME NEW x \in D, NEW y \in D
        PROVE  Before(y, x) <=> \/ major[y] < major[x]
                                \/ major[y] = major[x] /\ minor[y] < minor[x]
    BY <2>1
  <2> HIDE DEF Before, major, minor
  <2> QED
    BY <2>2 DEF ByKeys
<1>6. at = [k \in 1 .. Cardinality(D) |->
              CHOOSE x \in D : Cardinality({y \in D : Before(y, x)}) = k - 1]
  BY DEF Sorted
<1>7. InOrder(D, ahead, at)
  <2> HIDE DEF ahead, at, Before
  <2>1. \A k \in 1 .. Cardinality(D) :
          \E x \in D : Cardinality({y \in D : Before(y, x)}) = k - 1
    <3> TAKE k \in 1 .. Cardinality(D)
    <3>1. PICK x \in D : Cardinality(ahead[x]) = k - 1
      BY <1>2, <1>4, RankIsTaken
    <3>2. Cardinality({y \in D : Before(y, x)}) = k - 1
      BY <1>5, <3>1
    <3> QED
      BY <3>2
  <2>2. at \in [1 .. Cardinality(D) -> D]
    BY <1>6, <2>1
  <2>3. \A k \in 1 .. Cardinality(D) : Cardinality(ahead[at[k]]) = k - 1
    BY <1>5, <1>6, <2>1
  <2>4. ByRank(D, ahead, at)
    BY <2>2, <2>3 DEF ByRank
  <2> QED
    BY <1>2, <1>4, <2>4, RanksInOrder
<1> HIDE DEF ahead, at
<1>8. SearchMemories(memories, score, type, d, bound, limit)
        = First([k \in 1 .. Cardinality(D) |-> memories[at[k]]], limit)
  BY <1>3, <1>6
<1> QED
  BY <1>2, <1>7, <1>8, RankedLists DEF D

\* Listing the summaries of a document, by page, leaves none out.
LEMMA ListSummariesLists ==
  ASSUME NEW memories, Remembered(memories), NEW d, NEW bound
  PROVE  LET hits == ListSummariesCovering(memories, d, bound)
         IN  /\ hits \in Seq(ToSet(memories))
             /\ \A limit : Lists(hits, memories, Covering(memories, d, bound), limit)
<1> DEFINE D == Covering(memories, d, bound)
           Before(i, j) == \/ memories[i].page_start < memories[j].page_start
                           \/ memories[i].page_start = memories[j].page_start /\ i < j
           at == Sorted(D, Before)
           major == [i \in D |-> memories[i].page_start]
           minor == [i \in D |-> i]
           ahead == ByKeys(D, major, minor)
<1>1. /\ memories \in Seq(ToSet(memories))
      /\ DOMAIN memories = 1 .. Len(memories) /\ Len(memories) \in Nat
  BY DEF Remembered
<1>2. D \in SUBSET (1 .. Len(memories)) /\ IsFiniteSet(D)
  <2>1. 1 \in Int /\ Len(memories) \in Int
    BY <1>1
  <2>2. IsFiniteSet(1 .. Len(memories))
    BY ONLY <2>1, FS_Interval
  <2>3. D \in SUBSET (1 .. Len(memories))
    BY DEF Covering
  <2> HIDE DEF D
  <2> QED
    BY <2>2, <2>3, FS_Subset
<1>3. ListSummariesCovering(memories, d, bound) = [k \in DOMAIN at |-> memories[at[k]]]
  BY <1>1 DEF ListSummariesCovering, Ranked, Covering
<1>9. \A i \in D : i \in Nat /\ memories[i].page_start \in Nat
  <2> TAKE i \in D
  <2>1. i \in 1 .. Len(memories) /\ memories[i].type = "summary"
    BY DEF Covering
  <2>2. MemoryRow(memories[i])
    BY <2>1 DEF Remembered
  <2> QED
    BY <1>1, <2>1, <2>2 DEF MemoryRow
<1> HIDE DEF D
<1>4. StrictOrder(D, ahead)
  <2>2. major \in [D -> Int] /\ minor \in [D -> Int]
    BY <1>9
  <2>3. \A x, y \in D : major[x] = major[y] /\ minor[x] = minor[y] => x = y
    OBVIOUS
  <2> HIDE DEF major, minor
  <2> QED
    BY <2>2, <2>3, KeysOrder
<1>5. \A x \in D : {y \in D : Before(y, x)} = ahead[x]
  <2>2. ASSUME NEW x \in D, NEW y \in D
        PROVE  Before(y, x) <=> \/ major[y] < major[x]
                                \/ major[y] = major[x] /\ minor[y] < minor[x]
    BY <1>9
  <2> HIDE DEF Before, major, minor
  <2> QED
    BY <2>2 DEF ByKeys
<1>6. at = [k \in 1 .. Cardinality(D) |->
              CHOOSE x \in D : Cardinality({y \in D : Before(y, x)}) = k - 1]
  BY DEF Sorted
<1>7. InOrder(D, ahead, at)
  <2> HIDE DEF ahead, at, Before
  <2>1. \A k \in 1 .. Cardinality(D) :
          \E x \in D : Cardinality({y \in D : Before(y, x)}) = k - 1
    <3> TAKE k \in 1 .. Cardinality(D)
    <3>1. PICK x \in D : Cardinality(ahead[x]) = k - 1
      BY <1>2, <1>4, RankIsTaken
    <3>2. Cardinality({y \in D : Before(y, x)}) = k - 1
      BY <1>5, <3>1
    <3> QED
      BY <3>2
  <2>2. at \in [1 .. Cardinality(D) -> D]
    BY <1>6, <2>1
  <2>3. \A k \in 1 .. Cardinality(D) : Cardinality(ahead[at[k]]) = k - 1
    BY <1>5, <1>6, <2>1
  <2>4. ByRank(D, ahead, at)
    BY <2>2, <2>3 DEF ByRank
  <2> QED
    BY <1>2, <1>4, <2>4, RanksInOrder
<1> HIDE DEF ahead, at
<1>8. ListSummariesCovering(memories, d, bound) = [k \in 1 .. Cardinality(D) |-> memories[at[k]]]
  BY <1>3, <1>6
<1>10. 0 \in Nat
  OBVIOUS
<1>11. PICK X, t : /\ X = ToSet(memories)
                   /\ t = [k \in 1 .. Cardinality(D) |-> memories[at[k]]]
  OBVIOUS
<1>12. t \in Seq(X) /\ \A most : Lists(t, memories, D, most)
  <2>1. memories \in Seq(X)
    BY <1>1, <1>11
  <2>2. LET u == [k \in 1 .. Cardinality(D) |-> memories[at[k]]]
        IN  /\ u \in Seq(X) /\ \A most : Lists(u, memories, D, most)
            /\ First(u, 0) \in Seq(X) /\ Lists(First(u, 0), memories, D, 0)
            /\ Len(First(u, 0)) <= 0
    BY <1>2, <1>7, <1>10, <2>1, RankedLists
  <2> QED
    BY <1>11, <2>2
<1> QED
  BY <1>8, <1>11, <1>12 DEF D

\* The places a predicate holds at, in their order, and the first of them.
LEMMA KeepLists ==
  ASSUME NEW X, NEW s \in Seq(X), NEW D \in SUBSET (1 .. Len(s)), NEW limit \in Nat
  PROVE  /\ Keep(s, D) \in Seq(X) /\ First(Keep(s, D), limit) \in Seq(X)
         /\ Lists(First(Keep(s, D), limit), s, D, limit)
         /\ Len(First(Keep(s, D), limit)) <= limit
<1>1. PICK at : /\ Picks(Keep(s, D), s, at)
                /\ \A k \in 1 .. Len(Keep(s, D)) : at[k] \in D
                /\ \A x \in D : \E k \in 1 .. Len(Keep(s, D)) : at[k] = x
  BY KeepPicks
<1>2. PICK t : t = Keep(s, D)
  OBVIOUS
<1>3. t \in Seq(X) /\ Len(t) = Cardinality(D) /\ Len(t) \in Nat
  <2>1. t \in Seq(X) /\ Len(t) = Cardinality(D)
    BY <1>2, KeepPicks
  <2> QED
    BY <2>1
<1>4. /\ \A k \in 1 .. Len(t) : \E x \in D : t[k] = s[x]
      /\ \A x \in D : \E k \in 1 .. Len(t) : t[k] = s[x]
  BY <1>1, <1>2 DEF Picks
<1>5. PICK u : u = First(t, limit)
  OBVIOUS
<1>6. /\ u \in Seq(X) /\ Len(u) = IF limit < Len(t) THEN limit ELSE Len(t)
      /\ \A i \in 1 .. Len(u) : u[i] = t[i]
  BY <1>3, <1>5, FirstOf
<1>7. Lists(u, s, D, limit)
  <2>1. \A k \in 1 .. Len(u) : k \in 1 .. Len(t)
    BY <1>3, <1>6
  <2>2. Len(u) < limit \/ Cardinality(D) <= limit => Len(u) = Len(t)
    BY <1>3, <1>6
  <2>3. \A k \in 1 .. Len(u) : \E x \in D : u[k] = s[x]
    BY <1>4, <1>6, <2>1
  <2>4. Len(u) = Len(t) => \A x \in D : \E k \in 1 .. Len(u) : u[k] = s[x]
    BY <1>4, <1>6
  <2> QED
    BY <2>2, <2>3, <2>4 DEF Lists
<1> QED
  BY <1>2, <1>3, <1>5, <1>6, <1>7

\* As many memories as places: none is there twice.
LEMMA AsManyMemories ==
  ASSUME NEW memories, Remembered(memories), NEW D \in SUBSET (1 .. Len(memories))
  PROVE  Cardinality({memories[i] : i \in D}) = Cardinality(D)
<1> DEFINE T == {memories[i] : i \in D}
           f == [i \in D |-> memories[i]]
<1>1. IsFiniteSet(D)
  <2>1. 1 \in Int /\ Len(memories) \in Int
    BY DEF Remembered
  <2>2. IsFiniteSet(1 .. Len(memories))
    BY ONLY <2>1, FS_Interval
  <2> QED
    BY <2>2, FS_Subset
<1>2. f \in [D -> T] /\ \A y \in T : \E x \in D : f[x] = y
  OBVIOUS
<1>3. \A x, y \in D : f[x] = f[y] => x = y
  BY DEF Remembered
<1> HIDE DEF T, f
<1>4. f \in Bijection(D, T)
  BY <1>2, <1>3 DEF Bijection, Injection, Surjection, IsInjective
<1>5. ExistsBijection(D, T)
  BY <1>4 DEF ExistsBijection
<1> QED
  BY <1>1, <1>5, FS_Bijection DEF T

\* The places of the memories a recall may look at.
MayRecall(memories, type, target, page) ==
  {i \in 1 .. Len(memories) :
     /\ Match(memories[i].type, type) /\ Match(memories[i].document, target)
     /\ target # Unset => memories[i].page_end <= page}

\* The bound of the read range is no more than what a recall may look at.
LEMMA BoundIsOpen ==
  ASSUME NEW memories, Remembered(memories), NEW type, NEW target, NEW page \in Nat,
         target \in Nat \cup {Unset}, NEW bound, bound = IF target = Unset THEN Unset ELSE page
  PROVE  /\ Matching(memories, type, target, bound) = MayRecall(memories, type, target, page)
         /\ target # Unset /\ Match("summary", type) =>
              Covering(memories, target, bound) = MayRecall(memories, type, target, page)
         /\ target # Unset /\ ~Match("summary", type) =>
              MayRecall(memories, type, target, page) = {}
<1>0. Unset \notin Nat
  BY UnsetAssumption
<1>1. ASSUME NEW i \in 1 .. Len(memories), target # Unset, memories[i].document = target
      PROVE  memories[i].type = "summary" /\ memories[i].page_end \in Nat
  <2>1. MemoryRow(memories[i])
    BY DEF Remembered
  <2>2. target \in Nat /\ target # Unset
    BY <1>0, <1>1
  <2> QED
    BY <1>0, <1>1, <2>1, <2>2 DEF MemoryRow
<1>2. ASSUME NEW i \in 1 .. Len(memories), Match(memories[i].document, target)
      PROVE  WithinBound(memories[i], bound)
               <=> (target # Unset => memories[i].page_end <= page)
  <2>1. CASE target = Unset
    BY <2>1 DEF WithinBound
  <2>2. CASE target # Unset
    <3>1. memories[i].page_end \in Nat /\ bound = page
      BY <1>1, <1>2, <2>2 DEF Match
    <3> QED
      BY <1>0, <2>2, <3>1 DEF WithinBound
  <2> QED
    BY <2>1, <2>2
<1>3. Matching(memories, type, target, bound) = MayRecall(memories, type, target, page)
  BY <1>2 DEF MayRecall, Matching
<1>4. ASSUME target # Unset, NEW i \in 1 .. Len(memories)
      PROVE  /\ Match(memories[i].document, target) <=> memories[i].document = target
             /\ Match("summary", type) /\ memories[i].document = target =>
                  memories[i].type = "summary" /\ Match(memories[i].type, type)
             /\ ~Match("summary", type) /\ memories[i].document = target =>
                  ~Match(memories[i].type, type)
  BY <1>1, <1>4 DEF Match
<1>5. ASSUME target # Unset, Match("summary", type)
      PROVE  Covering(memories, target, bound) = MayRecall(memories, type, target, page)
  BY <1>3, <1>4, <1>5 DEF Matching, Covering
<1>6. ASSUME target # Unset, ~Match("summary", type)
      PROVE  MayRecall(memories, type, target, page) = {}
  BY <1>4, <1>6 DEF MayRecall
<1> QED
  BY <1>3, <1>5, <1>6

\* What a recall looks at before it looks at the pages asked for.
Looked(ctx, q, target, bound, fetch) ==
  IF q.query # Unset THEN SearchMemories(ctx.memories, q.query, q.type, target, bound, fetch)
  ELSE IF target = Unset THEN ListMemories(ctx.memories, q.type, fetch)
  ELSE IF Match("summary", q.type) THEN ListSummariesCovering(ctx.memories, target, bound)
  ELSE <<>>

\* Either way it looks at memories that are open to it, as many as it fetches
\* or all there are.
LEMMA LookedLists ==
  ASSUME NEW ctx, Remembered(ctx.memories), NEW q,
         q.query = Unset \/ \A i \in 1 .. Len(ctx.memories) : q.query[ctx.memories[i].id] \in Nat,
         NEW target \in Nat \cup {Unset}, NEW page \in Nat,
         NEW bound, bound = IF target = Unset THEN Unset ELSE page, NEW fetch \in Nat
  PROVE  LET hits == Looked(ctx, q, target, bound, fetch)
         IN  /\ hits \in Seq(ToSet(ctx.memories))
             /\ Lists(hits, ctx.memories, MayRecall(ctx.memories, q.type, target, page), fetch)
<1>1. PICK memories, type, O, hits :
        /\ memories = ctx.memories /\ type = q.type
        /\ O = MayRecall(memories, type, target, page)
        /\ hits = Looked(ctx, q, target, bound, fetch)
  OBVIOUS
<1>2. Remembered(memories) /\ memories \in Seq(ToSet(memories))
  BY <1>1 DEF Remembered
<1>3. ASSUME q.query # Unset
      PROVE  hits \in Seq(ToSet(memories)) /\ Lists(hits, memories, O, fetch)
  <2>1. hits = SearchMemories(memories, q.query, type, target, bound, fetch)
    BY <1>1, <1>3 DEF Looked
  <2>2. PICK score : score = q.query /\ \A i \in 1 .. Len(memories) : score[memories[i].id] \in Nat
    BY <1>1, <1>3
  <2>3. LET found == SearchMemories(memories, score, type, target, bound, fetch)
        IN  /\ found \in Seq(ToSet(memories)) /\ Len(found) <= fetch
            /\ Lists(found, memories, Matching(memories, type, target, bound), fetch)
    BY <1>2, <2>2, SearchMemoriesLists
  <2>4. Matching(memories, type, target, bound) = O
    BY <1>1, <1>2, BoundIsOpen
  <2> QED
    BY <2>1, <2>2, <2>3, <2>4
<1>4. ASSUME q.query = Unset /\ target = Unset
      PROVE  hits \in Seq(ToSet(memories)) /\ Lists(hits, memories, O, fetch)
  <2> DEFINE D == {i \in DOMAIN memories : Match(memories[i].type, type)}
  <2>1. hits = First(Keep(memories, D), fetch)
    BY <1>1, <1>4 DEF Looked, ListMemories, Filter
  <2>2. DOMAIN memories = 1 .. Len(memories)
    BY <1>2
  <2>3. D = O
    BY <1>1, <1>4, <2>2 DEF MayRecall, Match
  <2>4. D \in SUBSET (1 .. Len(memories))
    BY <2>2
  <2> HIDE DEF D
  <2> QED
    BY <1>2, <2>1, <2>3, <2>4, KeepLists
<1>5. ASSUME q.query = Unset /\ target # Unset /\ Match("summary", type)
      PROVE  hits \in Seq(ToSet(memories)) /\ Lists(hits, memories, O, fetch)
  <2>1. hits = ListSummariesCovering(memories, target, bound)
    BY <1>1, <1>5 DEF Looked
  <2>2. LET found == ListSummariesCovering(memories, target, bound)
        IN  /\ found \in Seq(ToSet(memories))
            /\ \A limit : Lists(found, memories, Covering(memories, target, bound), limit)
    BY <1>2, ListSummariesLists
  <2>3. Covering(memories, target, bound) = O
    BY <1>1, <1>2, <1>5, BoundIsOpen
  <2> QED
    BY <2>1, <2>2, <2>3
<1>6. ASSUME q.query = Unset /\ target # Unset /\ ~Match("summary", type)
      PROVE  hits \in Seq(ToSet(memories)) /\ Lists(hits, memories, O, fetch)
  <2>1. hits = <<>>
    BY <1>1, <1>6 DEF Looked
  <2>2. O = {}
    BY <1>1, <1>2, <1>6, BoundIsOpen
  <2>3. Lists(hits, memories, O, fetch)
    BY <2>1, <2>2 DEF Lists
  <2> QED
    BY <2>1, <2>3
<1>7. hits \in Seq(ToSet(memories)) /\ Lists(hits, memories, O, fetch)
  BY <1>3, <1>4, <1>5, <1>6
<1> QED
  BY <1>1, <1>7

\* What a recall may answer: memories of those open to it, on the pages asked
\* for, none left out while there was room and not more open than it looks at.
Recalled(all, type, target, page, first, last, top, found) ==
  LET open == {m \in all : /\ Match(m.type, type) /\ Match(m.document, target)
                           /\ target # Unset => m.page_end <= page}
      asked == {m \in open : OverlapsPageRange(m, first, last)}
  IN  /\ ToSet(found) \subseteq asked
      /\ Len(found) < top /\ Cardinality(open) <= PageFilteredLimit => ToSet(found) = asked

\* The tool that recalls answers with no other memories, whether it searches,
\* lists them all or lists the summaries of one document.
LEMMA RecallIsSound ==
  ASSUME NEW ctx, Remembered(ctx.memories), NEW q,
         q.query = Unset \/ \A i \in 1 .. Len(ctx.memories) : q.query[ctx.memories[i].id] \in Nat,
         q.limit \in Nat \cup {Unset},
         NEW target, target = Targeted(q.document), target \in Nat \cup {Unset},
         NEW page \in Nat, target # Unset => page = CurrentPage(ctx.rows[target]),
         NEW result, result = QueryLongTermMemory(ctx, q), result.kind = "memories"
  PROVE  Recalled(ToSet(ctx.memories), q.type, target, page, q.page_start, q.page_end,
                  IF q.limit = Unset THEN TopK ELSE q.limit, result.memories)
<1> DEFINE top == IF q.limit = Unset THEN TopK ELSE q.limit
           filtered == q.page_start # Unset \/ q.page_end # Unset
           fetch == IF filtered /\ top < PageFilteredLimit THEN PageFilteredLimit ELSE top
           bound == MemoryReadRangeBound(ctx, target)
           hits == Looked(ctx, q, target, bound, fetch)
           Fits(m) == OverlapsPageRange(m, q.page_start, q.page_end)
           K == {i \in DOMAIN hits : Fits(hits[i])}
           found == First(Keep(hits, K), top)
<1>1. result.memories = found
  <2>1. \/ QueryLongTermMemory(ctx, q) = [kind |-> "not an id"]
        \/ QueryLongTermMemory(ctx, q) = [kind |-> "no memories"]
        \/ QueryLongTermMemory(ctx, q) = [kind |-> "memories", memories |-> found]
    BY DEF QueryLongTermMemory, Looked, Filter, NotAnId
  <2> HIDE DEF found
  <2>2. PICK answer : answer = [kind |-> "memories", memories |-> found]
    OBVIOUS
  <2>3. answer.memories = found
    BY <2>2
  <2>5. PICK stray, none : stray = [kind |-> "not an id"] /\ none = [kind |-> "no memories"]
    OBVIOUS
  <2>6. stray.kind = "not an id" /\ none.kind = "no memories"
    BY <2>5
  <2>7. result = stray \/ result = none \/ result = answer
    BY <2>1, <2>2, <2>5
  <2>4. result = answer
    BY <2>6, <2>7
  <2> QED
    BY <2>3, <2>4
<1>2. top \in Nat /\ fetch \in Nat /\ TopK \in Nat /\ PageFilteredLimit \in Nat
  BY SizesAssumption
<1>3. bound = IF target = Unset THEN Unset ELSE page
  BY DEF MemoryReadRangeBound
<1>4. PICK memories, O : memories = ctx.memories /\ O = MayRecall(memories, q.type, target, page)
  OBVIOUS
<1> HIDE DEF hits, bound, fetch, top, Fits
<1>5. hits \in Seq(ToSet(memories)) /\ Lists(hits, memories, O, fetch)
  BY <1>2, <1>3, <1>4, LookedLists DEF hits
<1>6. DOMAIN hits = 1 .. Len(hits) /\ Len(hits) \in Nat /\ K \in SUBSET (1 .. Len(hits))
  BY <1>5
<1>7. found \in Seq(ToSet(memories)) /\ Lists(found, hits, K, top)
  <2> HIDE DEF K
  <2> QED
    BY <1>2, <1>5, <1>6, KeepLists
<1>8. /\ memories \in Seq(ToSet(memories)) /\ DOMAIN memories = 1 .. Len(memories)
      /\ O \in SUBSET (1 .. Len(memories)) /\ Remembered(memories)
  BY <1>4 DEF Remembered, MayRecall
<1> DEFINE all == ToSet(ctx.memories)
           open == {m \in all : /\ Match(m.type, q.type) /\ Match(m.document, target)
                                /\ target # Unset => m.page_end <= page}
           asked == {m \in open : OverlapsPageRange(m, q.page_start, q.page_end)}
<1>9. open = {memories[i] : i \in O}
  <2>1. all = {memories[i] : i \in 1 .. Len(memories)}
    BY <1>4, <1>8 DEF ToSet
  <2> HIDE DEF all
  <2> QED
    BY <1>4, <2>1 DEF MayRecall
<1>10. asked = {m \in open : Fits(m)}
  BY DEF Fits
<1>11. Cardinality(open) = Cardinality(O)
  BY <1>8, <1>9, AsManyMemories
<1> HIDE DEF open, asked, found
<1>12. DOMAIN found = 1 .. Len(found) /\ Len(found) \in Nat
  BY <1>7
<1>13. ToSet(found) \subseteq asked
  <2> SUFFICES ASSUME NEW k \in 1 .. Len(found) PROVE found[k] \in asked
    BY <1>12 DEF ToSet
  <2>1. PICK x \in K : found[k] = hits[x]
    BY <1>7 DEF Lists
  <2>2. x \in 1 .. Len(hits) /\ Fits(hits[x])
    BY <1>6, <2>1
  <2>3. PICK y \in O : hits[x] = memories[y]
    BY <1>5, <2>2 DEF Lists
  <2> QED
    BY <1>9, <1>10, <2>1, <2>2, <2>3
<1>14. ASSUME Len(found) < top, Cardinality(open) <= PageFilteredLimit
       PROVE  asked \subseteq ToSet(found)
  <2>1. Len(hits) < fetch \/ Cardinality(O) <= fetch
    <3>1. CASE filtered
      <4>1. PageFilteredLimit <= fetch
        BY <1>2, <3>1 DEF fetch
      <4>2. Cardinality(O) <= PageFilteredLimit
        BY <1>11, <1>14
      <4>3. Cardinality(O) \in Nat
        <5>1. 1 \in Int /\ Len(memories) \in Int
          BY <1>8
        <5>2. IsFiniteSet(1 .. Len(memories))
          BY ONLY <5>1, FS_Interval
        <5> QED
          BY <1>8, <5>2, FS_Subset, FS_CardinalityType
      <4> QED
        BY <1>2, <4>1, <4>2, <4>3
    <3>2. CASE ~filtered
      <4>1. fetch = top
        BY <3>2 DEF fetch
      <4>2. K = 1 .. Len(hits)
        BY <1>6, <3>2 DEF Fits, OverlapsPageRange
      <4>3. Cardinality(K) = Len(hits)
        <5>1. 1 \in Int /\ Len(hits) \in Int
          BY <1>6
        <5>2. Cardinality(1 .. Len(hits)) = IF 1 > Len(hits) THEN 0 ELSE Len(hits) - 1 + 1
          BY ONLY <5>1, FS_Interval
        <5>3. Cardinality(1 .. Len(hits)) = Len(hits)
          BY <1>6, <5>2
        <5> QED
          BY <4>2, <5>3
      <4>4. /\ Keep(hits, K) \in Seq(ToSet(memories))
            /\ Len(Keep(hits, K)) = Len(hits)
        <5> HIDE DEF K
        <5> QED
          BY <1>5, <1>6, <4>3, KeepPicks
      <4>5. Len(found) = IF top < Len(hits) THEN top ELSE Len(hits)
        <5> HIDE DEF K
        <5> QED
          BY <1>2, <4>4, FirstOf DEF found
      <4> QED
        BY <1>2, <1>6, <1>14, <4>1, <4>5
    <3> QED
      BY <3>1, <3>2
  <2> SUFFICES ASSUME NEW m \in asked PROVE m \in ToSet(found)
    OBVIOUS
  <2>2. PICK y \in O : m = memories[y] /\ Fits(m)
    BY <1>9, <1>10
  <2>3. PICK x \in 1 .. Len(hits) : hits[x] = m
    BY <1>5, <2>1, <2>2 DEF Lists
  <2>4. x \in K
    BY <1>6, <2>2, <2>3
  <2>5. PICK k \in 1 .. Len(found) : found[k] = hits[x]
    BY <1>7, <1>14, <2>4 DEF Lists
  <2> QED
    BY <1>12, <2>3, <2>5 DEF ToSet
<1>15. Recalled(all, q.type, target, page, q.page_start, q.page_end, top, found)
  BY <1>13, <1>14 DEF Recalled, open, asked
<1> QED
  BY <1>1, <1>15 DEF top

-----------------------------------------------------------------------------
(* What a reader is shown.                                                 *)

\* The reading progress of a reader, where there is any.
Rows == [Documents -> ProgressRow \cup {Unset}]

\* The data of a reader, and the calls of theirs that wait for an answer.
ReaderTyped ==
  /\ reader # Nobody => reader \in Readers /\ rows \in Rows /\ recent \in Seq(Documents)
  /\ outcome.kind = "ask_pages_read" =>
       /\ reader # Nobody
       /\ call.first = Unset /\ call.last = Unset
       /\ "rows" \in DOMAIN call /\ call = [f \in DOMAIN call |-> call[f]]
  /\ outcome.kind = "tool_approval" /\ call.tool = "recommend" =>
       reader # Nobody /\ "limit" \in DOMAIN call /\ call.limit \in Nat

\* The pages of a row of progress, or of none, are numbers.
LEMMA RowIsTyped ==
  ASSUME NEW row \in ProgressRow \cup {Unset}
  PROVE  /\ CurrentPage(row) \in Nat /\ LastSummarized(row) \in Nat
         /\ row # Unset => row \in ProgressRow
BY DEF CurrentPage, LastSummarized, ProgressRow

\* Recording a page makes such a row, at that page.
LEMMA RecordedIsTyped ==
  ASSUME NEW page \in Nat, NEW count
  PROVE  /\ RecordPosition(page, count) \in ProgressRow
         /\ RecordPosition(page, count).current_page = page
         /\ RecordPosition(page, count) # Unset
BY UnsetAssumption DEF RecordPosition, ProgressRow

\* A recap is of the row it is given, and of the pages that row resolves to.
IsRecap(result, ctx, d, row, first, last) ==
  LET span == ResolveSummarySpan(row, ctx.default, first, last)
  IN  /\ "row" \in DOMAIN result /\ result.row = row
      /\ result.kind \in {"nothing new", "no text", "recap"}
      /\ result.kind = "recap" =>
           /\ result.span = span
           /\ result.passages = ListByDocumentPageRange(ctx.passages[d], span[1], span[2])

\* Recap answers so, of any row and any pages.
LEMMA RecapIs ==
  ASSUME NEW ctx, NEW d, NEW row, NEW first, NEW last
  PROVE  IsRecap(Recap(ctx, d, row, first, last), ctx, d, row, first, last)
<1>1. PICK span, chunks :
        /\ span = ResolveSummarySpan(row, ctx.default, first, last)
        /\ chunks = ListByDocumentPageRange(ctx.passages[d], span[1], span[2])
  OBVIOUS
<1>2. PICK nothing, empty, recap :
        /\ nothing = [kind |-> "nothing new", row |-> row]
        /\ empty = [kind |-> "no text", row |-> row]
        /\ recap = [kind |-> "recap", row |-> row, span |-> span, passages |-> chunks]
  OBVIOUS
<1>3. \/ Recap(ctx, d, row, first, last) = nothing
      \/ Recap(ctx, d, row, first, last) = empty
      \/ Recap(ctx, d, row, first, last) = recap
  BY <1>1, <1>2 DEF Recap
<1>4. /\ nothing.kind = "nothing new" /\ "row" \in DOMAIN nothing /\ nothing.row = row
      /\ empty.kind = "no text" /\ "row" \in DOMAIN empty /\ empty.row = row
      /\ recap.kind = "recap" /\ "row" \in DOMAIN recap /\ recap.row = row
      /\ recap.span = span /\ recap.passages = chunks
  BY <1>2
<1> QED
  BY <1>1, <1>3, <1>4 DEF IsRecap

\* A call of summarize recaps from the row there is, or from the page given.
Summarized(result, ctx, d, first, last, answer) ==
  \/ /\ "row" \notin DOMAIN result
     /\ result.kind \in {"not an id", "not in the library", "ask_pages_read",
                         "no pages given", "error"}
     /\ result.kind = "ask_pages_read" => first = Unset /\ last = Unset
  \/ /\ d \in DOMAIN ctx.titles
     /\ ctx.rows[d] # Unset \/ first # Unset \/ last # Unset
     /\ IsRecap(result, ctx, d, ctx.rows[d], first, last)
  \/ /\ d \in DOMAIN ctx.titles
     /\ answer # None /\ answer.page_end # Unset
     /\ answer.page_end \in 0 .. ctx.page_count[d]
     /\ IsRecap(result, ctx, d, RecordPosition(answer.page_end, ctx.page_count[d]),
                IF answer.page_start = Unset THEN 1 ELSE answer.page_start, answer.page_end)

\* The summary tool answers in one of those ways.
LEMMA SummarizeIs ==
  ASSUME NEW ctx, NEW value, NEW first, NEW last, NEW answer
  PROVE  Summarized(Summarize(ctx, value, first, last, answer), ctx, ParseDocumentId(value),
                    first, last, answer)
<1>0. PICK d, result :
        d = ParseDocumentId(value) /\ result = Summarize(ctx, value, first, last, answer)
  OBVIOUS
<1> SUFFICES Summarized(result, ctx, d, first, last, answer)
  BY <1>0
<1>1. PICK stray, absent, ask, none, error :
        /\ stray = [kind |-> "not an id"] /\ absent = [kind |-> "not in the library"]
        /\ ask = [kind |-> "ask_pages_read"] /\ none = [kind |-> "no pages given"]
        /\ error = [kind |-> "error"]
  OBVIOUS
<1>2. /\ stray.kind = "not an id" /\ "row" \notin DOMAIN stray
      /\ absent.kind = "not in the library" /\ "row" \notin DOMAIN absent
      /\ ask.kind = "ask_pages_read" /\ "row" \notin DOMAIN ask
      /\ none.kind = "no pages given" /\ "row" \notin DOMAIN none
      /\ error.kind = "error" /\ "row" \notin DOMAIN error
  BY <1>1
<1>3. CASE d = None \/ d \notin DOMAIN ctx.titles
  <2>1. result = stray \/ result = absent
    BY <1>0, <1>1, <1>3 DEF Summarize, NotAnId
  <2> QED
    BY <1>2, <2>1 DEF Summarized
<1>4. CASE /\ d # None /\ d \in DOMAIN ctx.titles
           /\ ctx.rows[d] # Unset \/ first # Unset \/ last # Unset
  <2>1. result = Recap(ctx, d, ctx.rows[d], first, last)
    BY <1>0, <1>4 DEF Summarize
  <2>2. IsRecap(result, ctx, d, ctx.rows[d], first, last)
    BY <2>1, RecapIs
  <2> QED
    BY <1>4, <2>2 DEF Summarized
<1>5. CASE /\ d # None /\ d \in DOMAIN ctx.titles
           /\ ~(ctx.rows[d] # Unset \/ first # Unset \/ last # Unset)
  <2>1. CASE answer = None
    <3>1. result = ask
      BY <1>0, <1>1, <1>5, <2>1 DEF Summarize
    <3> QED
      BY <1>2, <1>5, <3>1 DEF Summarized
  <2>2. CASE answer # None /\ answer.page_end = Unset
    <3>1. PagesFromAnswer(answer)[2] = Unset
      BY <2>2 DEF PagesFromAnswer
    <3>2. result = none
      BY <1>0, <1>1, <1>5, <2>2, <3>1 DEF Summarize
    <3> QED
      BY <1>2, <3>2 DEF Summarized
  <2>3. CASE answer # None /\ answer.page_end # Unset
    <3>1. PICK pages : pages = PagesFromAnswer(answer)
      OBVIOUS
    <3>2. /\ pages[1] = IF answer.page_start = Unset THEN 1 ELSE answer.page_start
          /\ pages[2] = answer.page_end
      BY <2>3, <3>1 DEF PagesFromAnswer
    <3>3. CASE pages[2] \notin 0 .. ctx.page_count[d]
      <4>1. result = error
        BY <1>0, <1>1, <1>5, <2>3, <3>1, <3>2, <3>3 DEF Summarize
      <4> QED
        BY <1>2, <4>1 DEF Summarized
    <3>4. CASE pages[2] \in 0 .. ctx.page_count[d]
      <4>1. result = Recap(ctx, d, RecordPosition(pages[2], ctx.page_count[d]), pages[1], pages[2])
        BY <1>0, <1>5, <2>3, <3>1, <3>2, <3>4 DEF Summarize
      <4>2. PICK row, from, to :
              /\ row = RecordPosition(pages[2], ctx.page_count[d])
              /\ from = pages[1] /\ to = pages[2]
        OBVIOUS
      <4>3. IsRecap(result, ctx, d, row, from, to)
        BY <4>1, <4>2, RecapIs
      <4> QED
        BY <1>5, <2>3, <3>2, <3>4, <4>2, <4>3 DEF Summarized
    <3> QED
      BY <3>3, <3>4
  <2> QED
    BY <2>1, <2>2, <2>3
<1> QED
  BY <1>3, <1>4, <1>5

\* The fields of the context a call runs in.
LEMMA ContextIs ==
  /\ Context.rows = rows /\ Context.user = reader.user /\ Context.default = reader.default
  /\ DOMAIN Context.titles = Stored /\ Context.memories = reader.memories
  /\ Context.passages = Shelf[reader].passages /\ Context.points = Shelf[reader].points
  /\ Context.page_count = [d \in Docs |-> Len(reader.files[d])]
  /\ Context.library = Library
BY DEF Context, Titles

\* A stored document is one of the reader's.
LEMMA StoredIsTyped ==
  ASSUME reader \in Readers, NEW d \in Stored
  PROVE  /\ d \in DOMAIN reader.files /\ d \in Documents
         /\ Len(reader.files[d]) \in Nat
<1>1. d \in DOMAIN reader.files
  BY DEF Stored, Docs
<1>2. d \in Documents
  BY <1>1 DEF Documents
<1>3. reader.files \in Seq(Seq(Seq(Nat)) \ {<<>>, Corrupt})
  BY ReadersAssumption
<1>4. reader.files[d] \in Seq(Seq(Nat))
  BY <1>1, <1>3
<1> QED
  BY <1>1, <1>2, <1>4

\* The documents last used but one, that one first.
LEMMA RecentIsTyped ==
  ASSUME NEW d \in Documents, recent \in Seq(Documents)
  PROVE  <<d>> \o Filter(recent, LAMBDA e : e # d) \in Seq(Documents)
<1> DEFINE D == {i \in DOMAIN recent : recent[i] # d}
<1>1. D \in SUBSET (1 .. Len(recent))
  OBVIOUS
<1>2. Filter(recent, LAMBDA e : e # d) = Keep(recent, D)
  BY DEF Filter
<1> HIDE DEF D
<1>3. Keep(recent, D) \in Seq(Documents)
  BY <1>1, KeepPicks
<1>4. <<d>> \in Seq(Documents)
  OBVIOUS
<1> QED
  BY <1>2, <1>3, <1>4

\* The outcomes of the tools, by kind.
LEMMA KindsOfTools ==
  /\ \A ctx, value : GetReadingProgress(ctx, value).kind
                       \in {"not an id", "list", "not tracked", "progress"}
  /\ \A ctx, score, value, unread, limit :
       RetrieveChunks(ctx, score, value, unread, limit).kind
         \in {"not an id", "no passages", "passages"}
  /\ \A ctx, q : QueryLongTermMemory(ctx, q).kind \in {"not an id", "no memories", "memories"}
  /\ \A query, answer : WebSearch(query, answer).kind \in {"tool_approval", "denied", "web"}
  /\ \A ctx, web, query, limit, answer :
       LET result == Recommend(ctx, web, query, limit, answer)
       IN  /\ result.kind \in {"library", "tool_approval", "web"}
           /\ result.internal = RecommendFromLibrary(ctx.library, limit)
<1>1. NotAnId.kind = "not an id"
  BY DEF NotAnId
<1>2. ASSUME NEW ctx, NEW value
      PROVE  GetReadingProgress(ctx, value).kind \in {"not an id", "list", "not tracked", "progress"}
  BY <1>1 DEF GetReadingProgress
<1>3. ASSUME NEW ctx, NEW score, NEW value, NEW unread, NEW limit
      PROVE  RetrieveChunks(ctx, score, value, unread, limit).kind
               \in {"not an id", "no passages", "passages"}
  BY <1>1 DEF RetrieveChunks
<1>4. ASSUME NEW ctx, NEW q
      PROVE  QueryLongTermMemory(ctx, q).kind \in {"not an id", "no memories", "memories"}
  BY <1>1 DEF QueryLongTermMemory
<1>5. ASSUME NEW query, NEW answer
      PROVE  WebSearch(query, answer).kind \in {"tool_approval", "denied", "web"}
  BY DEF WebSearch, Outside
<1>6. ASSUME NEW ctx, NEW web, NEW query, NEW limit, NEW answer
      PROVE  LET result == Recommend(ctx, web, query, limit, answer)
             IN  /\ result.kind \in {"library", "tool_approval", "web"}
                 /\ result.internal = RecommendFromLibrary(ctx.library, limit)
  BY DEF Recommend, RecommendInside, Outside
<1> QED
  BY <1>2, <1>3, <1>4, <1>5, <1>6

\* Nothing of a computation or a conversation is a tool's.
LEMMA KindsOfComputations ==
  ASSUME Chunk \/ Stream \/ Report \/ Score \/ RecallNote
  PROVE  /\ outcome'.kind \in {"failed", "chunks", "frames", "report", "scores", "notes"}
         /\ UNCHANGED <<reader, rows, recent>>
<1> DEFINE Is == {"failed", "chunks", "frames", "report", "scores", "notes"}
<1>1. ASSUME Chunk PROVE outcome'.kind \in Is
  BY <1>1 DEF Chunk, Computes
<1>2. ASSUME Stream PROVE outcome'.kind \in Is
  BY <1>2 DEF Stream, Computes
<1>3. ASSUME Report PROVE outcome'.kind \in Is /\ UNCHANGED <<reader, rows, recent>>
  <2>1. \E args, usage, analytics :
          Computes(args, [kind |-> "report", usage |-> usage, analytics |-> analytics])
    BY <1>3, Zenon DEF Report
  <2> QED
    BY <2>1 DEF Computes
<1>4. ASSUME Score PROVE outcome'.kind \in Is
  BY <1>4 DEF Score, Computes
<1>5. ASSUME RecallNote PROVE outcome'.kind \in Is
  BY <1>5 DEF RecallNote, Computes
<1>6. ASSUME Chunk \/ Stream \/ Score \/ RecallNote PROVE UNCHANGED <<reader, rows, recent>>
  BY <1>6 DEF Chunk, Stream, Score, RecallNote, Computes
<1> QED
  BY <1>1, <1>2, <1>3, <1>4, <1>5, <1>6

\* A document without a position to recap from is asked for one.
LEMMA RecapAsked ==
  ASSUME ReaderTyped, Asking, CallSummarize PROVE ReaderTyped'
<1>1. PICK v \in Values \ {Unset}, first \in Pages, last \in Pages :
        Calls([tool |-> "summarize", document |-> v, first |-> first, last |-> last],
              Summarize(Context, v, first, last, None))
  BY DEF CallSummarize
<1>2. PICK args : args = [tool |-> "summarize", document |-> v, first |-> first, last |-> last]
  OBVIOUS
<1>3. /\ DOMAIN args = {"tool", "document", "first", "last"}
      /\ args.first = first /\ args.last = last
  BY <1>2
<1>4. /\ call'.first = first /\ call'.last = last
      /\ call' = [f \in DOMAIN call' |-> call'[f]]
      /\ outcome' = Summarize(Context, v, first, last, None)
      /\ UNCHANGED <<reader, rows, recent>>
  BY <1>1, <1>2, <1>3, CallKept
<1>5. "rows" \in DOMAIN call'
  BY <1>1 DEF Calls, Kept
<1>6. outcome'.kind = "ask_pages_read" => first = Unset /\ last = Unset
  <2>1. PICK d, result : d = ParseDocumentId(v) /\ result = Summarize(Context, v, first, last, None)
    OBVIOUS
  <2>2. Summarized(result, Context, d, first, last, None)
    BY <2>1, SummarizeIs
  <2> QED
    BY <1>4, <2>1, <2>2 DEF Summarized, IsRecap
<1>7. outcome'.kind # "tool_approval"
  BY <1>4, ToolsStayInside DEF Leaving
<1> QED
  BY <1>4, <1>5, <1>6, <1>7 DEF ReaderTyped, Asking

\* The page a reader gives is recorded of one of their documents.
LEMMA RecapAnswered ==
  ASSUME ReaderTyped, ResumeSummarize PROVE ReaderTyped'
<1>1. PICK answer \in Answers :
        LET result == Summarize(Context, call.document, call.first, call.last, answer)
            d == ParseDocumentId(call.document)
        IN  /\ call' = [call EXCEPT !.rows = rows]
            /\ outcome' = result
            /\ rows' = IF "row" \in DOMAIN result THEN [rows EXCEPT ![d] = result.row] ELSE rows
            /\ recent' = IF rows' = rows THEN recent
                         ELSE <<d>> \o Filter(recent, LAMBDA e : e # d)
            /\ UNCHANGED <<reader, talk>>
  BY DEF ResumeSummarize
<1>2. PICK d, result :
        /\ d = ParseDocumentId(call.document)
        /\ result = Summarize(Context, call.document, call.first, call.last, answer)
  OBVIOUS
<1>3. /\ outcome.kind = "ask_pages_read" /\ reader # Nobody /\ reader \in Readers
      /\ rows \in Rows /\ recent \in Seq(Documents)
      /\ call.first = Unset /\ call.last = Unset
      /\ "rows" \in DOMAIN call /\ call = [f \in DOMAIN call |-> call[f]]
  BY DEF ReaderTyped, ResumeSummarize
<1>4. /\ call' = [call EXCEPT !.rows = rows] /\ outcome' = result
      /\ rows' = IF "row" \in DOMAIN result THEN [rows EXCEPT ![d] = result.row] ELSE rows
      /\ recent' = IF rows' = rows THEN recent ELSE <<d>> \o Filter(recent, LAMBDA e : e # d)
      /\ reader' = reader
  BY <1>1, <1>2
<1>5. /\ call'.first = Unset /\ call'.last = Unset
      /\ "rows" \in DOMAIN call' /\ call' = [f \in DOMAIN call' |-> call'[f]]
  BY <1>3, <1>4
<1>6. "row" \in DOMAIN result =>
        /\ d \in Documents /\ result.row \in ProgressRow \cup {Unset}
  <2> SUFFICES ASSUME "row" \in DOMAIN result
               PROVE  d \in Documents /\ result.row \in ProgressRow \cup {Unset}
    OBVIOUS
  <2>1. CASE /\ d \in DOMAIN Context.titles
             /\ IsRecap(result, Context, d, Context.rows[d], call.first, call.last)
    <3>1. d \in Documents
      BY <1>3, <2>1, ContextIs, StoredIsTyped
    <3>2. result.row = rows[d]
      BY <2>1, ContextIs DEF IsRecap
    <3> QED
      BY <1>3, <3>1, <3>2 DEF Rows
  <2>2. ASSUME NEW row, NEW from,
               d \in DOMAIN Context.titles,
               answer.page_end \in 0 .. Context.page_count[d],
               row = RecordPosition(answer.page_end, Context.page_count[d]),
               IsRecap(result, Context, d, row, from, answer.page_end)
        PROVE  d \in Documents /\ result.row \in ProgressRow \cup {Unset}
    <3>1. d \in Documents
      BY <1>3, <2>2, ContextIs, StoredIsTyped
    <3>2. answer.page_end \in Nat
      BY <2>2
    <3>3. row \in ProgressRow
      BY <2>2, <3>2, RecordedIsTyped
    <3>4. result.row = row
      BY <2>2 DEF IsRecap
    <3> QED
      BY <3>1, <3>3, <3>4
  <2>3. Summarized(result, Context, d, call.first, call.last, answer)
    <3>1. PICK value, first, last : value = call.document /\ first = call.first /\ last = call.last
      OBVIOUS
    <3>2. Summarized(result, Context, d, first, last, answer)
      BY <1>2, <3>1, SummarizeIs
    <3> QED
      BY <3>1, <3>2
  <2> QED
    BY <2>1, <2>2, <2>3 DEF Summarized
<1>7. rows' \in Rows
  BY <1>3, <1>4, <1>6 DEF Rows
<1>8. recent' \in Seq(Documents)
  BY <1>3, <1>4, <1>6, RecentIsTyped
<1>9. outcome'.kind # "tool_approval"
  BY <1>2, <1>4, ToolsStayInside DEF Leaving
<1> QED
  BY <1>3, <1>4, <1>5, <1>7, <1>8, <1>9 DEF ReaderTyped

\* A page read during a pause is of one of the reader's documents.
LEMMA ReadingOnTyped ==
  ASSUME ReaderTyped, ReadOn PROVE ReaderTyped'
<1>0. PICK d \in Stored :
        LET old == IF rows[d] = Unset THEN RecordPosition(0, Len(reader.files[d])) ELSE rows[d]
        IN  /\ \/ \E page \in Pages \cap 1 .. Len(reader.files[d]) :
                     rows' = [rows EXCEPT ![d] = [old EXCEPT !.current_page = page,
                       !.status = RecordPosition(page, Len(reader.files[d])).status]]
               \/ rows' = [rows EXCEPT ![d] = [old EXCEPT !.status = "completed"]]
            /\ recent' = <<d>> \o Filter(recent, LAMBDA e : e # d)
  BY DEF ReadOn
<1>a. UNCHANGED <<reader, call, outcome>>
  BY DEF ReadOn
<1>b. PICK old :
        old = IF rows[d] = Unset THEN RecordPosition(0, Len(reader.files[d])) ELSE rows[d]
  OBVIOUS
<1>1. /\ \/ \E page \in Pages \cap 1 .. Len(reader.files[d]) :
              rows' = [rows EXCEPT ![d] = [old EXCEPT !.current_page = page,
                !.status = RecordPosition(page, Len(reader.files[d])).status]]
         \/ rows' = [rows EXCEPT ![d] = [old EXCEPT !.status = "completed"]]
      /\ recent' = <<d>> \o Filter(recent, LAMBDA e : e # d)
  BY <1>0, <1>b
<1>2. CASE reader = Nobody
  BY <1>a, <1>2 DEF ReaderTyped
<1>3. CASE reader # Nobody
  <2>1. reader \in Readers /\ rows \in Rows /\ recent \in Seq(Documents)
    BY <1>3 DEF ReaderTyped
  <2>2. d \in Documents
    BY <2>1, StoredIsTyped
  <2>3. old \in ProgressRow
    BY <1>b, <2>1, <2>2, RecordedIsTyped DEF Rows
  <2>4. \E row \in ProgressRow : rows' = [rows EXCEPT ![d] = row]
    <3>1. CASE rows' = [rows EXCEPT ![d] = [old EXCEPT !.status = "completed"]]
      <4>1. [old EXCEPT !.status = "completed"] \in ProgressRow
        BY <2>3 DEF ProgressRow
      <4> QED
        BY <3>1, <4>1
    <3>2. ASSUME NEW page \in Pages \cap 1 .. Len(reader.files[d]),
                 rows' = [rows EXCEPT ![d] = [old EXCEPT !.current_page = page,
                   !.status = RecordPosition(page, Len(reader.files[d])).status]]
          PROVE  \E row \in ProgressRow : rows' = [rows EXCEPT ![d] = row]
      <4>1. PICK new : new = RecordPosition(page, Len(reader.files[d]))
        OBVIOUS
      <4>2. page \in Nat
        BY <2>1, StoredIsTyped
      <4>3. new \in ProgressRow
        BY <4>1, <4>2, RecordedIsTyped
      <4>4. [old EXCEPT !.current_page = page, !.status = new.status] \in ProgressRow
        BY <2>3, <4>2, <4>3 DEF ProgressRow
      <4> QED
        BY <3>2, <4>1, <4>4
    <3> QED
      BY <1>1, <3>1, <3>2
  <2>5. rows' \in Rows
    BY <2>1, <2>2, <2>4 DEF Rows
  <2>6. recent' \in Seq(Documents)
    BY <1>1, <2>1, <2>2, RecentIsTyped
  <2> QED
    BY <1>a, <2>1, <2>5, <2>6 DEF ReaderTyped
<1> QED
  BY <1>2, <1>3

\* A recommendation waits with the limit it was asked for.
LEMMA RecommendationAsked ==
  ASSUME ReaderTyped, CallRecommend PROVE ReaderTyped'
<1>1. PICK web \in BOOLEAN, w \in Topics \cup {Unset}, limit \in Limits \ {Unset} :
        Calls([tool |-> "recommend", web |-> web, query |-> w, limit |-> limit, answer |-> None],
              Recommend(Context, web, w, limit, None))
  BY DEF CallRecommend
<1>2. PICK args, result :
        /\ args = [tool |-> "recommend", web |-> web, query |-> w, limit |-> limit,
                   answer |-> None]
        /\ result = Recommend(Context, web, w, limit, None)
  OBVIOUS
<1>3. /\ DOMAIN args = {"tool", "web", "query", "limit", "answer"}
      /\ args.limit = limit
  BY <1>2
<1>4. /\ call'.limit = limit /\ DOMAIN args \subseteq DOMAIN call'
      /\ call' = [f \in DOMAIN call' |-> call'[f]]
      /\ outcome' = result
      /\ UNCHANGED <<reader, rows, recent>>
  BY <1>1, <1>2, <1>3, CallKept
<1>5. outcome'.kind # "ask_pages_read"
  BY <1>2, <1>4, KindsOfTools
<1>6. limit \in Nat
  BY ArgumentsAssumption
<1> QED
  BY <1>3, <1>4, <1>5, <1>6 DEF ReaderTyped, CallRecommend, Asking

\* An answer leaves the call as it was asked.
LEMMA RecommendationAnswered ==
  ASSUME ReaderTyped, AskedWell, ResumeApproval PROVE ReaderTyped'
<1>1. PICK answer \in Answers :
        /\ outcome.kind = "tool_approval"
        /\ call' = [call EXCEPT !.answer = answer]
        /\ outcome' = IF call.tool = "recommend"
                      THEN Recommend(Context, call.web, call.query, call.limit, answer)
                      ELSE WebSearch(call.query, answer)
        /\ UNCHANGED <<reader, rows, recent, talk>>
  BY DEF ResumeApproval
<1>2. outcome'.kind # "ask_pages_read"
  <2>1. \/ \E ctx, web, query, limit : outcome' = Recommend(ctx, web, query, limit, answer)
        \/ \E query : outcome' = WebSearch(query, answer)
    BY <1>1
  <2> QED
    BY <2>1, KindsOfTools
<1>3. CASE call.tool = "recommend"
  <2>1. /\ reader # Nobody /\ call.limit \in Nat /\ "limit" \in DOMAIN call
        /\ call = [f \in DOMAIN call |-> call[f]]
    BY <1>1, <1>3 DEF ReaderTyped, AskedWell
  <2>2. /\ call'.limit = call.limit /\ DOMAIN call' = DOMAIN call
        /\ call' = [f \in DOMAIN call' |-> call'[f]]
    BY <1>1, <2>1
  <2> QED
    BY <1>1, <1>2, <2>1, <2>2 DEF ReaderTyped
<1>4. CASE call.tool # "recommend"
  <2>1. call'.tool = call.tool
    BY <1>1 DEF AskedWell, Asked
  <2> QED
    BY <1>1, <1>2, <1>4, <2>1 DEF ReaderTyped
<1> QED
  BY <1>3, <1>4

\* The data of a reader keeps its type.
LEMMA ReaderTypedStep ==
  ASSUME ReaderTyped, AskedWell, [Next]_vars PROVE ReaderTyped'
<1> DEFINE Settled == /\ outcome'.kind \notin {"ask_pages_read", "tool_approval"}
                      /\ UNCHANGED <<reader, rows, recent>>
<1>1. ASSUME CallProgress PROVE Settled
  BY <1>1, KindsOfTools DEF CallProgress, Calls
<1>2. ASSUME CallRetrieve PROVE Settled
  <2>1. \E ctx, score, value, unread, limit :
          outcome' = RetrieveChunks(ctx, score, value, unread, limit)
    BY <1>2 DEF CallRetrieve, Calls
  <2>2. UNCHANGED <<reader, rows, recent>>
    BY <1>2 DEF CallRetrieve, Calls
  <2> QED
    BY <2>1, <2>2, KindsOfTools
<1>3. ASSUME CallRecall PROVE Settled
  <2>1. \E ctx, q : Calls(q, QueryLongTermMemory(ctx, q))
    BY <1>3 DEF CallRecall
  <2> QED
    BY <2>1, KindsOfTools DEF Calls
<1>4. ASSUME CallWebSearch PROVE ReaderTyped'
  <2>1. PICK w \in Topics :
          Calls([tool |-> "web_search", query |-> w, answer |-> None], WebSearch(w, None))
    BY <1>4 DEF CallWebSearch
  <2>2. /\ call'.tool = "web_search" /\ outcome' = WebSearch(w, None)
        /\ UNCHANGED <<reader, rows, recent>>
    BY <2>1, CallKept
  <2>3. outcome'.kind # "ask_pages_read"
    BY <2>2, KindsOfTools
  <2> QED
    BY <2>2, <2>3 DEF ReaderTyped
<1>5. ASSUME Chunk \/ Stream \/ Report \/ Score \/ RecallNote PROVE Settled
  BY <1>5, KindsOfComputations
<1>6. ASSUME Talk PROVE UNCHANGED <<reader, rows, recent, call, outcome>>
  BY <1>6 DEF Talk, question
<1>7. CASE CallSummarize
  BY <1>7, RecapAsked DEF CallSummarize
<1>8. CASE UNCHANGED vars
  BY <1>8 DEF vars, question, ReaderTyped
<1>9. Settled => ReaderTyped'
  BY DEF ReaderTyped
<1> QED
  BY <1>1, <1>2, <1>3, <1>4, <1>5, <1>6, <1>7, <1>8, <1>9, RecommendationAsked,
     RecommendationAnswered, RecapAnswered, ReadingOnTyped DEF Next, ReaderTyped

\* A reader's data has its type to begin with.
LEMMA ReaderTypedAtFirst == Init => ReaderTyped
BY ShelvesAssumption DEF Init, Idle, ReaderTyped, Rows

-----------------------------------------------------------------------------
(* Recommendations.                                                        *)

\* What the search by a word finds, why a word is searched for, the word with
\* its reason, and what it finds with the two.
Hit == [document : Nat, score : Nat]
Reasons == {"completed", "reading", "mentioned"}
SeedRow == [query : Words, why : Reasons]
Signal == [document : Nat, score : Nat, seed : SeedRow]

\* A library whose documents, titles and hits can be looked up by word.
Stocked(lib) ==
  /\ {lib.completed, lib.reading} \subseteq Seq(Nat)
  /\ \A d \in DOMAIN lib.titles : lib.titles[d] \in Words \cup {Unset}
  /\ {lib.preferences, lib.habits} \subseteq Seq(Words)
  /\ \A w \in Words : lib.hits[w] \in Seq(Hit)

\* The seed of each item of the history.
LEMMA HistorySeedsTyped ==
  ASSUME NEW lib, Stocked(lib),
         NEW history, history = HistoryItems(lib.completed, lib.reading, lib.titles)
  PROVE  [i \in DOMAIN history |-> [query |-> history[i].title, why |-> history[i].status]]
           \in Seq(SeedRow)
<1> DEFINE Started == [document : Nat, status : Reasons]
           all == [i \in DOMAIN lib.completed |->
                     [document |-> lib.completed[i], status |-> "completed"]]
                   \o [i \in DOMAIN lib.reading |->
                         [document |-> lib.reading[i], status |-> "reading"]]
           listed == First(all, HistorySeeds)
           found == [i \in DOMAIN history |->
                       [query |-> history[i].title, why |-> history[i].status]]
<1>1. ASSUME NEW s \in Seq(Nat), NEW word \in Reasons
      PROVE  [i \in DOMAIN s |-> [document |-> s[i], status |-> word]] \in Seq(Started)
  <2>1. DOMAIN s = 1 .. Len(s) /\ Len(s) \in Nat
    OBVIOUS
  <2>2. \A i \in 1 .. Len(s) : s[i] \in Nat
    OBVIOUS
  <2>3. [i \in DOMAIN s |-> [document |-> s[i], status |-> word]] \in [1 .. Len(s) -> Started]
    BY <2>1, <2>2
  <2> HIDE DEF Started
  <2> QED
    BY <2>1, <2>3, FunctionIsSeq
<1>2. all \in Seq(Started)
  <2>1. lib.completed \in Seq(Nat) /\ lib.reading \in Seq(Nat)
    BY DEF Stocked
  <2>2. "completed" \in Reasons /\ "reading" \in Reasons
    BY DEF Reasons
  <2> HIDE DEF Started
  <2>3. PICK one, two :
          /\ one = [i \in DOMAIN lib.completed |->
                      [document |-> lib.completed[i], status |-> "completed"]]
          /\ two = [i \in DOMAIN lib.reading |->
                      [document |-> lib.reading[i], status |-> "reading"]]
    OBVIOUS
  <2>4. one \in Seq(Started) /\ two \in Seq(Started)
    BY <1>1, <2>1, <2>2, <2>3
  <2>5. one \o two \in Seq(Started)
    BY <2>4
  <2> QED
    BY <2>3, <2>5
<1>3. listed \in Seq(Started)
  <2>1. HistorySeeds \in Nat
    BY SizesAssumption
  <2> HIDE DEF Started, all
  <2> QED
    BY <1>2, <2>1, FirstOf
<1>4. history = [i \in DOMAIN listed |->
                   [document |-> listed[i].document, status |-> listed[i].status,
                    title |-> Titled(listed[i].document, lib.titles)]]
  BY DEF HistoryItems
<1> HIDE DEF listed
<1>5. DOMAIN listed = 1 .. Len(listed) /\ Len(listed) \in Nat /\ DOMAIN history = DOMAIN listed
  BY <1>3, <1>4
<1>6. ASSUME NEW i \in DOMAIN history
      PROVE  history[i].title \in Words /\ history[i].status \in Reasons
  <2>1. listed[i] \in Started
    <3> HIDE DEF Started
    <3> QED
      BY <1>3, <1>5
  <2>2. /\ history[i].status = listed[i].status
        /\ history[i].title = Titled(listed[i].document, lib.titles)
    BY <1>4, <1>5
  <2>3. Titled(listed[i].document, lib.titles) \in Words
    <3>1. Untitled \in Words
      BY ArgumentsAssumption
    <3> QED
      BY <3>1 DEF Titled, Stocked
  <2> QED
    BY <2>1, <2>2, <2>3
<1>7. found \in [1 .. Len(listed) -> SeedRow]
  BY <1>5, <1>6 DEF SeedRow
<1> HIDE DEF found
<1>8. found \in Seq(SeedRow)
  BY <1>5, <1>7, FunctionIsSeq
<1> QED
  BY <1>8 DEF found

\* The seeds of a recommendation are words to look up.
LEMMA SeedsTyped ==
  ASSUME NEW lib, Stocked(lib),
         NEW history, history = HistoryItems(lib.completed, lib.reading, lib.titles)
  PROVE  Seeds(history, lib.preferences, lib.habits) \in Seq(SeedRow)
<1>1. ASSUME NEW said \in Seq(Words)
      PROVE  [i \in DOMAIN First(said, MemorySeeds) |->
                [query |-> said[i], why |-> "mentioned"]] \in Seq(SeedRow)
  <2>1. PICK t : t = First(said, MemorySeeds)
    OBVIOUS
  <2>2. /\ t \in Seq(Words) /\ Len(t) = IF MemorySeeds < Len(said) THEN MemorySeeds ELSE Len(said)
        /\ MemorySeeds \in Nat
    BY <2>1, SizesAssumption, FirstOf
  <2>3. DOMAIN t = 1 .. Len(t) /\ Len(t) \in Nat /\ \A i \in 1 .. Len(t) : said[i] \in Words
    BY <2>2
  <2>4. [i \in DOMAIN t |-> [query |-> said[i], why |-> "mentioned"]] \in [1 .. Len(t) -> SeedRow]
    BY <2>3 DEF SeedRow, Reasons
  <2>5. [i \in DOMAIN t |-> [query |-> said[i], why |-> "mentioned"]] \in Seq(SeedRow)
    BY <2>3, <2>4, FunctionIsSeq
  <2> QED
    BY <2>1, <2>5
<1>2. lib.preferences \in Seq(Words) /\ lib.habits \in Seq(Words)
  BY DEF Stocked
<1>3. PICK read, liked, done :
        /\ read = [i \in DOMAIN history |->
                     [query |-> history[i].title, why |-> history[i].status]]
        /\ liked = [i \in DOMAIN First(lib.preferences, MemorySeeds) |->
                      [query |-> lib.preferences[i], why |-> "mentioned"]]
        /\ done = [i \in DOMAIN First(lib.habits, MemorySeeds) |->
                     [query |-> lib.habits[i], why |-> "mentioned"]]
  OBVIOUS
<1>4. read \in Seq(SeedRow) /\ liked \in Seq(SeedRow) /\ done \in Seq(SeedRow)
  BY <1>1, <1>2, <1>3, HistorySeedsTyped
<1>5. read \o liked \o done \in Seq(SeedRow)
  BY <1>4
<1> QED
  BY <1>3, <1>5 DEF Seeds

\* What a seed finds.
Heard(seed, hits) ==
  LET found == First(hits[seed.query], Candidates)
  IN  [j \in DOMAIN found |->
         [document |-> found[j].document, score |-> found[j].score, seed |-> seed]]

\* The signals of a seed are its first hits, in their order, and name the seed.
LEMMA HeardTyped ==
  ASSUME NEW lib, Stocked(lib), NEW seed \in SeedRow
  PROVE  LET heard == Heard(seed, lib.hits)
             found == First(lib.hits[seed.query], Candidates)
         IN  /\ heard \in Seq(Signal) /\ Len(heard) = Len(found)
             /\ found \in Seq(Hit) /\ Len(found) <= Len(lib.hits[seed.query])
             /\ \A j \in 1 .. Len(heard) :
                  /\ heard[j].seed = seed
                  /\ found[j] = [document |-> heard[j].document, score |-> heard[j].score]
                  /\ lib.hits[seed.query][j] = found[j]
<1>1. PICK all, found : all = lib.hits[seed.query] /\ found = First(all, Candidates)
  OBVIOUS
<1>2. seed.query \in Words
  BY DEF SeedRow
<1>3. all \in Seq(Hit) /\ Candidates \in Nat
  BY <1>1, <1>2, SizesAssumption DEF Stocked
<1>4. /\ found \in Seq(Hit) /\ Len(found) = IF Candidates < Len(all) THEN Candidates ELSE Len(all)
      /\ \A j \in 1 .. Len(found) : found[j] = all[j]
  BY <1>1, <1>3, FirstOf
<1>5. DOMAIN found = 1 .. Len(found) /\ Len(found) \in Nat /\ Len(found) <= Len(all)
  BY <1>3, <1>4
<1>6. PICK heard : heard = [j \in 1 .. Len(found) |->
         [document |-> found[j].document, score |-> found[j].score, seed |-> seed]]
  OBVIOUS
<1>7. Heard(seed, lib.hits) = heard
  BY <1>1, <1>5, <1>6 DEF Heard
<1>8. \A j \in 1 .. Len(found) :
        found[j] = [document |-> found[j].document, score |-> found[j].score]
        /\ found[j].document \in Nat /\ found[j].score \in Nat
  <2>1. \A j \in 1 .. Len(found) : found[j] \in Hit
    BY <1>4
  <2> QED
    BY <2>1 DEF Hit
<1>9. heard \in [1 .. Len(found) -> Signal]
  BY <1>6, <1>8 DEF Signal
<1>10. heard \in Seq(Signal) /\ Len(heard) = Len(found)
  BY <1>5, <1>9, FunctionIsSeq
<1>11. \A j \in 1 .. Len(found) :
         /\ heard[j].seed = seed
         /\ found[j] = [document |-> heard[j].document, score |-> heard[j].score]
         /\ all[j] = found[j]
  BY <1>4, <1>6, <1>8
<1> QED
  BY <1>1, <1>4, <1>5, <1>7, <1>10, <1>11

\* The signals are what the seeds find outside the excluded documents.
LEMMA SignalsTyped ==
  ASSUME NEW lib, Stocked(lib), NEW seeds \in Seq(SeedRow), NEW exclude
  PROVE  LET s == Signals(seeds, lib.hits, exclude)
         IN  /\ s \in Seq(Signal)
             /\ \A x : Has(s, x) <=> /\ x.document \notin exclude
                                     /\ \E i \in 1 .. Len(seeds) : Has(Heard(seeds[i], lib.hits), x)
<1> DEFINE parts == [i \in DOMAIN seeds |-> Heard(seeds[i], lib.hits)]
           t == FlattenSeq(parts)
           D == {i \in DOMAIN t : t[i].document \notin exclude}
           s == Signals(seeds, lib.hits, exclude)
<1>1. s = Keep(t, D)
  BY DEF Signals, Heard, Filter
<1>2. DOMAIN seeds = 1 .. Len(seeds) /\ Len(seeds) \in Nat
  OBVIOUS
<1>3. parts \in [1 .. Len(seeds) -> Seq(Signal)]
  <2>1. \A i \in 1 .. Len(seeds) : Heard(seeds[i], lib.hits) \in Seq(Signal)
    BY HeardTyped
  <2> QED
    BY <1>2, <2>1
<1>4. \A i \in 1 .. Len(seeds) : parts[i] = Heard(seeds[i], lib.hits)
  BY <1>2
<1> HIDE DEF parts, s
<1>5. parts \in Seq(Seq(Signal)) /\ Len(parts) = Len(seeds)
  BY <1>2, <1>3, FunctionIsSeq
<1>6. /\ t \in Seq(Signal)
      /\ \A x : Has(t, x) <=> \E i \in 1 .. Len(seeds) : Has(Heard(seeds[i], lib.hits), x)
  BY <1>4, <1>5, FlattenSeqContents
<1> HIDE DEF t
<1>7. D \in SUBSET (1 .. Len(t))
  BY <1>6
<1>8. \A i : i \in D <=> i \in 1 .. Len(t) /\ t[i].document \notin exclude
  BY <1>6
<1> HIDE DEF D
<1>9. /\ s \in Seq(Signal)
      /\ \E at : /\ Picks(s, t, at)
                 /\ \A k \in 1 .. Len(s) : at[k] \in D
                 /\ \A x \in D : \E k \in 1 .. Len(s) : at[k] = x
  BY <1>1, <1>6, <1>7, KeepPicks
<1>10. PICK at : /\ Picks(s, t, at)
                 /\ \A k \in 1 .. Len(s) : at[k] \in D
                 /\ \A x \in D : \E k \in 1 .. Len(s) : at[k] = x
  BY <1>9
<1>11. ASSUME NEW x, Has(s, x) PROVE Has(t, x) /\ x.document \notin exclude
  <2>1. PICK k \in 1 .. Len(s) : s[k] = x
    BY <1>11 DEF Has
  <2>2. at[k] \in D /\ t[at[k]] = x
    BY <1>10, <2>1 DEF Picks
  <2> QED
    BY <1>8, <2>2 DEF Has
<1>12. ASSUME NEW x, Has(t, x), x.document \notin exclude PROVE Has(s, x)
  <2>1. PICK i \in 1 .. Len(t) : t[i] = x
    BY <1>12 DEF Has
  <2>2. PICK k \in 1 .. Len(s) : at[k] = i
    BY <1>8, <1>10, <1>12, <2>1
  <2>3. s[k] = x
    BY <1>10, <2>1, <2>2 DEF Picks
  <2> QED
    BY <2>3 DEF Has
<1>13. \A x : Has(s, x) <=> /\ x.document \notin exclude
                            /\ \E i \in 1 .. Len(seeds) : Has(Heard(seeds[i], lib.hits), x)
  BY <1>6, <1>11, <1>12
<1> QED
  BY <1>9, <1>13 DEF s

\* t names each document once, by the strongest of its signals, strongest first.
Ranking(t, s) ==
  /\ t \in Seq(Signal)
  /\ \A k \in 1 .. Len(t) : Has(s, t[k])
  /\ \A k \in 1 .. Len(t) : \A i \in 1 .. Len(s) :
       s[i].document = t[k].document => s[i].score <= t[k].score
  /\ \A k, l \in 1 .. Len(t) : k < l =>
       t[k].document # t[l].document /\ t[k].score >= t[l].score

\* The places of the strongest signal of each document.
Leaders(s) ==
  {i \in 1 .. Len(s) :
     \A j \in 1 .. Len(s) : s[j].document = s[i].document =>
       \/ s[j].score < s[i].score
       \/ s[j].score = s[i].score /\ i <= j}

\* RankCandidates of its signals.
RankedSignals(s) ==
  LET About(d) == {i \in DOMAIN s : s[i].document = d}
      Strongest(i) == \A j \in About(s[i].document) :
                        \/ s[j].score < s[i].score
                        \/ s[j].score = s[i].score /\ i <= j
      Entered(i) == CHOOSE j \in About(s[i].document) :
                      \A k \in About(s[i].document) : j <= k
  IN  Ranked(s, {i \in DOMAIN s : Strongest(i)},
        LAMBDA i, j : \/ s[i].score > s[j].score
                      \/ s[i].score = s[j].score /\ Entered(i) < Entered(j))

\* RankCandidates ranks the signals of the seeds,
LEMMA CandidatesAreRankedSignals ==
  ASSUME NEW seeds, NEW hits, NEW exclude
  PROVE  RankCandidates(seeds, hits, exclude) = RankedSignals(Signals(seeds, hits, exclude))
BY DEF RankCandidates, RankedSignals

\* and its ranking holds each document once, by its best signal, the best
\* document first.
LEMMA CandidatesRanked ==
  ASSUME NEW s \in Seq(Signal)
  PROVE  Ranking(RankedSignals(s), s)
<1> DEFINE About(d) == {i \in DOMAIN s : s[i].document = d}
           D == {i \in DOMAIN s : \A j \in About(s[i].document) :
                   \/ s[j].score < s[i].score
                   \/ s[j].score = s[i].score /\ i <= j}
           Entered(i) == CHOOSE j \in About(s[i].document) :
                           \A k \in About(s[i].document) : j <= k
           Before(i, j) == \/ s[i].score > s[j].score
                           \/ s[i].score = s[j].score /\ Entered(i) < Entered(j)
           at == Sorted(D, Before)
           major == [i \in D |-> 0 - s[i].score]
           minor == [i \in D |-> Entered(i)]
           ahead == ByKeys(D, major, minor)
<1>1. /\ DOMAIN s = 1 .. Len(s) /\ Len(s) \in Nat
      /\ \A i \in 1 .. Len(s) : s[i] \in Signal
  OBVIOUS
<1>2. D \in SUBSET (1 .. Len(s)) /\ IsFiniteSet(D)
  <2>1. 1 \in Int /\ Len(s) \in Int
    BY <1>1
  <2>2. IsFiniteSet(1 .. Len(s))
    BY ONLY <2>1, FS_Interval
  <2>3. D \in SUBSET (1 .. Len(s))
    BY <1>1
  <2> HIDE DEF D
  <2> QED
    BY <2>2, <2>3, FS_Subset
<1>3. RankedSignals(s) = [k \in DOMAIN at |-> s[at[k]]]
  BY DEF RankedSignals, Ranked
<1>0. D = Leaders(s)
  BY <1>1 DEF Leaders
<1>4. ASSUME NEW i \in D
      PROVE  /\ Entered(i) \in Nat /\ Entered(i) \in 1 .. Len(s)
             /\ s[Entered(i)].document = s[i].document
  <2>1. i \in About(s[i].document) /\ About(s[i].document) \in SUBSET Nat
    BY <1>1, <1>2
  <2>2. PICK m \in About(s[i].document) : \A k \in Nat : k < m => k \notin About(s[i].document)
    <3> HIDE DEF About
    <3> QED
      BY <2>1, LeastNumber
  <2>3. \A k \in About(s[i].document) : m <= k
    BY <2>1, <2>2
  <2>4. Entered(i) \in About(s[i].document)
    <3> HIDE DEF About
    <3> QED
      BY <2>3
  <2> HIDE DEF Entered
  <2> QED
    BY <1>1, <2>4
<1> HIDE DEF Entered
<1>5. \A i \in D : i \in Nat /\ s[i].score \in Nat /\ Entered(i) \in Nat
  <2>1. \A i \in D : s[i] \in Signal
    BY <1>1, <1>2
  <2> HIDE DEF D
  <2> QED
    BY <1>1, <1>2, <1>4, <2>1 DEF Signal
<1>6. ASSUME NEW x \in D, NEW y \in D, s[x].document = s[y].document PROVE x = y
  <2> HIDE DEF D
  <2> QED
    BY <1>0, <1>1, <1>5, <1>6, SMTT(30) DEF Leaders
<1> HIDE DEF D
<1>7. StrictOrder(D, ahead)
  <2>1. major \in [D -> Int] /\ minor \in [D -> Int]
    BY <1>5
  <2>2. \A x, y \in D : major[x] = major[y] /\ minor[x] = minor[y] => x = y
    <3> SUFFICES ASSUME NEW x \in D, NEW y \in D, minor[x] = minor[y] PROVE x = y
      OBVIOUS
    <3>1. Entered(x) = Entered(y)
      OBVIOUS
    <3> QED
      BY <1>4, <1>6, <3>1
  <2> HIDE DEF major, minor
  <2> QED
    BY <2>1, <2>2, KeysOrder
<1>8. \A x \in D : {y \in D : Before(y, x)} = ahead[x]
  <2>1. ASSUME NEW x \in D, NEW y \in D
        PROVE  Before(y, x) <=> \/ major[y] < major[x]
                                \/ major[y] = major[x] /\ minor[y] < minor[x]
    BY <1>5, SMTT(30)
  <2> HIDE DEF Before, major, minor
  <2> QED
    BY <2>1 DEF ByKeys
<1>9. at = [k \in 1 .. Cardinality(D) |->
              CHOOSE x \in D : Cardinality({y \in D : Before(y, x)}) = k - 1]
  BY DEF Sorted
<1>10. InOrder(D, ahead, at)
  <2> HIDE DEF ahead, at, Before
  <2>1. \A k \in 1 .. Cardinality(D) :
          \E x \in D : Cardinality({y \in D : Before(y, x)}) = k - 1
    <3> TAKE k \in 1 .. Cardinality(D)
    <3>1. PICK x \in D : Cardinality(ahead[x]) = k - 1
      BY <1>2, <1>7, RankIsTaken
    <3>2. Cardinality({y \in D : Before(y, x)}) = k - 1
      BY <1>8, <3>1
    <3> QED
      BY <3>2
  <2>2. at \in [1 .. Cardinality(D) -> D]
    BY <1>9, <2>1
  <2>3. \A k \in 1 .. Cardinality(D) : Cardinality(ahead[at[k]]) = k - 1
    BY <1>8, <1>9, <2>1
  <2>4. ByRank(D, ahead, at)
    BY <2>2, <2>3 DEF ByRank
  <2> QED
    BY <1>2, <1>7, <2>4, RanksInOrder
<1>11. PICK n, t : n \in Nat /\ n = Cardinality(D) /\ t = RankedSignals(s)
  BY <1>2, FS_CardinalityType
<1>12. t = [k \in 1 .. n |-> s[at[k]]]
  BY <1>3, <1>9, <1>11
<1>13. \A k \in 1 .. n : at[k] \in D /\ at[k] \in 1 .. Len(s)
  <2> HIDE DEF ahead, at
  <2> QED
    BY <1>2, <1>10, <1>11 DEF InOrder
<1>14. ASSUME NEW i \in 1 .. n, NEW j \in 1 .. n, i < j
       PROVE  s[at[i]].document # s[at[j]].document /\ s[at[i]].score >= s[at[j]].score
  <2>1. at[i] \in ahead[at[j]] /\ at[i] # at[j]
    <3> HIDE DEF ahead, at
    <3> QED
      BY <1>10, <1>11, <1>14 DEF InOrder
  <2> HIDE DEF at
  <2>2. \/ major[at[i]] < major[at[j]]
        \/ major[at[i]] = major[at[j]] /\ minor[at[i]] < minor[at[j]]
    BY <1>13, <2>1 DEF ByKeys
  <2>3. \/ 0 - s[at[i]].score < 0 - s[at[j]].score
        \/ 0 - s[at[i]].score = 0 - s[at[j]].score
    BY <1>13, <2>2
  <2>4. s[at[i]].score \in Nat /\ s[at[j]].score \in Nat
    BY <1>5, <1>13
  <2>5. s[at[i]].score >= s[at[j]].score
    BY <2>3, <2>4, SMTT(30)
  <2> QED
    BY <1>6, <1>13, <2>1, <2>5
<1> HIDE DEF at, ahead
<1>15. t \in Seq(Signal) /\ Len(t) = n
  <2>1. t \in [1 .. n -> Signal]
    BY <1>1, <1>12, <1>13
  <2> QED
    BY <1>11, <2>1, FunctionIsSeq
<1>16. \A k \in 1 .. n : Has(s, t[k])
  BY <1>12, <1>13 DEF Has
<1>17. ASSUME NEW k \in 1 .. n, NEW i \in 1 .. Len(s), s[i].document = t[k].document
       PROVE  s[i].score <= t[k].score
  <2>1. t[k] = s[at[k]] /\ at[k] \in Leaders(s)
    BY <1>0, <1>12, <1>13
  <2>2. s[i].score \in Nat /\ s[at[k]].score \in Nat
    <3>1. s[i] \in Signal /\ s[at[k]] \in Signal
      BY <1>1, <1>13
    <3> QED
      BY <3>1 DEF Signal
  <2> QED
    BY <1>17, <2>1, <2>2 DEF Leaders
<1> QED
  BY <1>11, <1>12, <1>14, <1>15, <1>16, <1>17 DEF Ranking

\* What is picked of a ranking is one.
LEMMA RankingPicked ==
  ASSUME NEW t, NEW s, Ranking(t, s), NEW u \in Seq(Signal), NEW at, Picks(u, t, at)
  PROVE  Ranking(u, s)
<1>1. \A k \in 1 .. Len(u) : at[k] \in 1 .. Len(t) /\ u[k] = t[at[k]]
  BY DEF Picks
<1>2. \A k, l \in 1 .. Len(u) : k < l => at[k] < at[l]
  BY DEF Picks
<1>3. Len(t) \in Nat /\ Len(u) \in Nat
  BY DEF Ranking
<1>4. \A k \in 1 .. Len(u) : Has(s, u[k])
  BY <1>1 DEF Ranking
<1>5. \A k \in 1 .. Len(u) : \A i \in 1 .. Len(s) :
        s[i].document = u[k].document => s[i].score <= u[k].score
  BY <1>1, SMTT(30) DEF Ranking
<1>6. ASSUME NEW k \in 1 .. Len(u), NEW l \in 1 .. Len(u), k < l
      PROVE  u[k].document # u[l].document /\ u[k].score >= u[l].score
  <2>1. at[k] < at[l] /\ at[k] \in 1 .. Len(t) /\ at[l] \in 1 .. Len(t)
    BY <1>1, <1>2, <1>6
  <2>2. t[at[k]].document # t[at[l]].document /\ t[at[k]].score >= t[at[l]].score
    BY <2>1 DEF Ranking
  <2> QED
    BY <1>1, <2>2
<1> QED
  BY <1>4, <1>5, <1>6 DEF Ranking

\* What the library recommends is sound.
LEMMA RecommendIsSound ==
  ASSUME NEW lib, Stocked(lib), NEW limit \in Nat
  PROVE  RecommendationsAreSound(lib, limit, RecommendFromLibrary(lib, limit))
<1>1. PICK history : history = HistoryItems(lib.completed, lib.reading, lib.titles)
  OBVIOUS
<1>2. PICK seeds : seeds = Seeds(history, lib.preferences, lib.habits)
  OBVIOUS
<1>3. seeds \in Seq(SeedRow)
  BY <1>1, <1>2, SeedsTyped
<1>4. PICK exclude : exclude = {history[i].document : i \in DOMAIN history}
  OBVIOUS
<1>5. PICK s : s = Signals(seeds, lib.hits, exclude)
  OBVIOUS
<1>6. /\ s \in Seq(Signal)
      /\ \A x : Has(s, x) <=> /\ x.document \notin exclude
                              /\ \E i \in 1 .. Len(seeds) : Has(Heard(seeds[i], lib.hits), x)
  BY <1>3, <1>5, SignalsTyped
<1>7. PICK t : t = RankCandidates(seeds, lib.hits, exclude)
  OBVIOUS
<1>8. Ranking(t, s)
  BY <1>5, <1>6, <1>7, CandidatesAreRankedSignals, CandidatesRanked
<1>9. PICK top : top = First(t, limit)
  OBVIOUS
<1>10. t \in Seq(Signal)
  BY <1>8 DEF Ranking
<1>11. /\ top \in Seq(Signal) /\ Len(top) <= limit /\ Len(top) <= Len(t)
       /\ \A i \in 1 .. Len(top) : top[i] = t[i]
  BY <1>9, <1>10, FirstOf
<1>12. Ranking(top, s)
  <2>1. Picks(top, t, [k \in 1 .. Len(top) |-> k])
    <3>1. Len(top) \in Nat /\ Len(t) \in Nat
      BY <1>10, <1>11
    <3> QED
      BY <1>11, <3>1 DEF Picks
  <2> QED
    BY <1>8, <1>11, <2>1, RankingPicked
<1>13. PICK D : D = {i \in DOMAIN top : top[i].document \in DOMAIN lib.titles}
  OBVIOUS
<1>14. PICK found : found = Keep(top, D)
  OBVIOUS
<1>15. RecommendFromLibrary(lib, limit) = found
  <2>1. RecommendFromLibrary(lib, limit)
          = Filter(First(RankCandidates(seeds, lib.hits, exclude), limit),
                   LAMBDA r : r.document \in DOMAIN lib.titles)
    BY <1>1, <1>2, <1>4 DEF RecommendFromLibrary
  <2>2. First(RankCandidates(seeds, lib.hits, exclude), limit) = top
    BY <1>7, <1>9
  <2>3. Filter(top, LAMBDA r : r.document \in DOMAIN lib.titles) = found
    BY <1>13, <1>14 DEF Filter
  <2> QED
    BY <2>1, <2>2, <2>3
<1>16. D \in SUBSET (1 .. Len(top)) /\ \A i \in D : top[i].document \in DOMAIN lib.titles
  BY <1>11, <1>13
<1>17. /\ found \in Seq(Signal) /\ Len(found) = Cardinality(D)
       /\ \E at : Picks(found, top, at) /\ \A k \in 1 .. Len(found) : at[k] \in D
  BY <1>11, <1>14, <1>16, KeepPicks
<1>18. PICK at : Picks(found, top, at) /\ \A k \in 1 .. Len(found) : at[k] \in D
  BY <1>17
<1>19. Ranking(found, s)
  BY <1>12, <1>17, <1>18, RankingPicked
<1>20. Len(found) <= limit
  <2>1. 1 \in Int /\ Len(top) \in Int /\ Len(top) \in Nat
    BY <1>11
  <2>2. IsFiniteSet(1 .. Len(top))
        /\ Cardinality(1 .. Len(top)) = IF 1 > Len(top) THEN 0 ELSE Len(top) - 1 + 1
    BY ONLY <2>1, FS_Interval
  <2>3. Cardinality(D) \in Nat /\ Cardinality(D) <= Cardinality(1 .. Len(top))
    BY <1>16, <2>2, FS_Subset, FS_CardinalityType
  <2> QED
    BY <1>11, <1>17, <2>1, <2>2, <2>3
<1>21. ASSUME NEW i \in 1 .. Len(found)
       PROVE  found[i].document \in DOMAIN lib.titles
  <2>1. at[i] \in D /\ found[i] = top[at[i]]
    BY <1>18 DEF Picks
  <2> QED
    BY <1>16, <2>1
<1>22. ASSUME NEW i \in 1 .. Len(found)
       PROVE  /\ found[i].document \notin exclude
              /\ \E j \in DOMAIN lib.hits[found[i].seed.query] :
                   lib.hits[found[i].seed.query][j]
                     = [document |-> found[i].document, score |-> found[i].score]
  <2>1. Has(s, found[i])
    BY <1>19 DEF Ranking
  <2>2. found[i].document \notin exclude
    BY <1>6, <2>1
  <2>3. PICK k \in 1 .. Len(seeds) : Has(Heard(seeds[k], lib.hits), found[i])
    BY <1>6, <2>1
  <2>4. PICK seed, heard : seed = seeds[k] /\ heard = Heard(seed, lib.hits)
    OBVIOUS
  <2>5. seed \in SeedRow
    BY <1>3, <2>4
  <2>6. PICK j \in 1 .. Len(heard) : heard[j] = found[i]
    BY <2>3, <2>4 DEF Has
  <2>7. /\ Len(heard) \in Nat /\ Len(heard) <= Len(lib.hits[seed.query])
        /\ heard[j].seed = seed
        /\ lib.hits[seed.query][j] = [document |-> heard[j].document, score |-> heard[j].score]
    BY <2>4, <2>5, HeardTyped
  <2>8. lib.hits[seed.query] \in Seq(Hit)
    BY <2>5 DEF Stocked, SeedRow
  <2>9. j \in DOMAIN lib.hits[seed.query]
    BY <2>7, <2>8
  <2> QED
    BY <2>2, <2>6, <2>7, <2>9
<1>23. ASSUME NEW i \in 1 .. Len(found), NEW k \in 1 .. Len(seeds),
              NEW h \in ToSet(First(lib.hits[seeds[k].query], Candidates)),
              h.document = found[i].document
       PROVE  h.score <= found[i].score
  <2>1. PICK seed, heard, listed :
          /\ seed = seeds[k] /\ heard = Heard(seed, lib.hits)
          /\ listed = First(lib.hits[seed.query], Candidates)
    OBVIOUS
  <2>2. seed \in SeedRow
    BY <1>3, <2>1
  <2>3. /\ heard \in Seq(Signal) /\ Len(heard) = Len(listed) /\ listed \in Seq(Hit)
        /\ \A j \in 1 .. Len(heard) :
             listed[j] = [document |-> heard[j].document, score |-> heard[j].score]
    BY <2>1, <2>2, HeardTyped
  <2>4. PICK j \in 1 .. Len(listed) : h = listed[j]
    BY <1>23, <2>1, <2>3 DEF ToSet
  <2>5. h.document = heard[j].document /\ h.score = heard[j].score
    <3>1. h = [document |-> heard[j].document, score |-> heard[j].score]
      BY <2>3, <2>4
    <3> QED
      BY <3>1
  <2>6. Has(heard, heard[j])
    BY <2>3, <2>4 DEF Has
  <2>7. found[i].document \notin exclude
    BY <1>22
  <2>8. Has(s, heard[j])
    BY <1>6, <1>23, <2>1, <2>5, <2>6, <2>7
  <2>9. PICK m \in 1 .. Len(s) : s[m] = heard[j]
    BY <2>8 DEF Has
  <2> QED
    BY <1>19, <1>23, <2>5, <2>9 DEF Ranking
<1>24. DOMAIN found = 1 .. Len(found) /\ DOMAIN seeds = 1 .. Len(seeds)
  BY <1>3, <1>17
<1>25. \A i, j \in DOMAIN found : i < j =>
         found[i].document # found[j].document /\ found[i].score >= found[j].score
  BY <1>19, <1>24 DEF Ranking
<1>26. \A i \in DOMAIN found : \A k \in DOMAIN history :
         found[i].document # history[k].document
  BY <1>4, <1>22, <1>24
<1>27. PICK hits : hits = UNION {ToSet(First(lib.hits[seeds[i].query], Candidates)) :
                                   i \in DOMAIN seeds}
  OBVIOUS
<1>28. \A i \in DOMAIN found : \A h \in hits :
         h.document = found[i].document => h.score <= found[i].score
  BY <1>23, <1>24, <1>27
<1>29. \A i \in DOMAIN found :
         \A x \in {h.score : h \in {h \in hits : h.document = found[i].document}} :
           x <= found[i].score
  BY <1>28
<1>30. RecommendationsAreSound(lib, limit, found)
  <2>1. \A i \in DOMAIN found :
          /\ found[i].document \in DOMAIN lib.titles
          /\ \A k \in DOMAIN history : found[i].document # history[k].document
          /\ \A x \in {h.score : h \in {h \in hits : h.document = found[i].document}} :
               x <= found[i].score
          /\ \E j \in DOMAIN lib.hits[found[i].seed.query] :
               lib.hits[found[i].seed.query][j]
                 = [document |-> found[i].document, score |-> found[i].score]
    BY <1>21, <1>22, <1>24, <1>26, <1>29
  <2> QED
    BY <1>1, <1>2, <1>20, <1>25, <1>27, <2>1 DEF RecommendationsAreSound
<1> QED
  BY <1>15, <1>30

\* What the search for a word finds in a reader's library.
LEMMA HitsTyped ==
  ASSUME NEW r \in Readers, NEW w \in Words
  PROVE  Shelf[r].hits[w] \in Seq(Hit)
<1>1. PICK points, score, f :
        /\ points = Shelf[r].points /\ score = Shelf[r].scores[w]
        /\ f = Everywhere(r.user)
  OBVIOUS
<1>2. PICK found : found = Search(points, f, score, Candidates)
  OBVIOUS
<1>3. Located(points) /\ Scored(points, score)
  BY <1>1, ShelfTyped
<1>4. PICK S, s : /\ S = Found(points, f) /\ IsFiniteSet(S) /\ S \in SUBSET points
                  /\ found = First(s, Candidates)
                  /\ InOrder(S, [x \in S |-> {y \in S : Nearer(score, y, x)}], s)
  BY <1>2, <1>3, SearchInOrder
<1>5. s \in Seq(S)
  <2>1. Cardinality(S) \in Nat /\ s \in [1 .. Cardinality(S) -> S]
    BY <1>4, FS_CardinalityType DEF InOrder
  <2> QED
    BY <2>1, FunctionIsSeq
<1>6. found \in Seq(S)
  <2>1. Candidates \in Nat
    BY SizesAssumption
  <2> QED
    BY <1>4, <1>5, <2>1, FirstOf
<1>7. DOMAIN found = 1 .. Len(found) /\ Len(found) \in Nat
  BY <1>6
<1>8. Shelf[r].hits[w] = [i \in DOMAIN found |->
                            [document |-> found[i].document, score |-> score[found[i].id]]]
  <2>1. Shelf[r] = Indexed(r)
    BY DEF Shelf
  <2>2. Indexed(r).hits[w]
          = LET all == Search(Indexed(r).points, Everywhere(r.user), Indexed(r).scores[w], Candidates)
            IN  [i \in DOMAIN all |-> [document |-> all[i].document,
                                       score |-> Indexed(r).scores[w][all[i].id]]]
    BY DEF Indexed
  <2> QED
    BY <1>1, <1>2, <2>1, <2>2
<1>9. ASSUME NEW i \in 1 .. Len(found)
      PROVE  found[i].document \in Nat /\ score[found[i].id] \in Nat
  <2>1. found[i] \in points
    BY <1>4, <1>6
  <2>2. found[i].document \in Nat
    BY <1>1, <2>1, ShelfTyped
  <2> QED
    BY <1>3, <2>1, <2>2 DEF Scored
<1>10. Shelf[r].hits[w] \in [1 .. Len(found) -> Hit]
  BY <1>7, <1>8, <1>9 DEF Hit
<1> QED
  BY <1>7, <1>10, FunctionIsSeq

\* The library a reader's recommendations draw on.
LEMMA LibraryStocked ==
  ASSUME ReaderTyped, reader # Nobody
  PROVE  Stocked(Library)
<1>1. reader \in Readers /\ rows \in Rows /\ recent \in Seq(Documents)
  BY DEF ReaderTyped
<1>2. Documents \in SUBSET Nat
  <2>1. ASSUME NEW r \in Readers, NEW d \in DOMAIN r.files PROVE d \in Nat
    <3>1. r.files \in Seq(Seq(Seq(Nat)) \ {<<>>, Corrupt})
      BY ReadersAssumption
    <3> QED
      BY <3>1
  <2> QED
    BY <2>1 DEF Documents
<1>3. ASSUME NEW status PROVE InStatus(status) \in Seq(Nat)
  <2>1. PICK D : D = {i \in DOMAIN recent : rows[recent[i]] # Unset /\ rows[recent[i]].status = status}
    OBVIOUS
  <2>2. InStatus(status) = Keep(recent, D)
    BY <2>1 DEF InStatus, Filter
  <2>3. recent \in Seq(Nat)
    <3>1. Len(recent) \in Nat /\ recent \in [1 .. Len(recent) -> Documents]
      BY <1>1
    <3>2. recent \in [1 .. Len(recent) -> Nat]
      BY <1>2, <3>1
    <3> QED
      BY <3>1, <3>2, FunctionIsSeq
  <2>4. D \in SUBSET (1 .. Len(recent))
    BY <1>1, <2>1
  <2> QED
    BY <2>2, <2>3, <2>4, KeepPicks
<1>4. \A d \in DOMAIN Titles : Titles[d] \in Words \cup {Unset}
  <2>1. reader.titles \in [DOMAIN reader.files -> Words \cup {Unset}]
    BY <1>1, ReadersAssumption
  <2> QED
    BY <2>1 DEF Titles, Stored, Docs
<1>5. {reader.preferences, reader.habits} \subseteq Seq(Words)
  BY <1>1, ReadersAssumption
<1>6. \A w \in Words : Shelf[reader].hits[w] \in Seq(Hit)
  BY <1>1, HitsTyped
<1>7. /\ Library.completed = InStatus("completed") /\ Library.reading = InStatus("reading")
      /\ Library.titles = Titles /\ Library.preferences = reader.preferences
      /\ Library.habits = reader.habits /\ Library.hits = Shelf[reader].hits
  BY DEF Library
<1> QED
  BY <1>3, <1>4, <1>5, <1>6, <1>7 DEF Stocked

-----------------------------------------------------------------------------
(* What a question shows and finds.                                        *)

\* The outcomes that show the reader what is stored.
Telling == {"passages", "recap", "memories", "library", "web"}

\* An outcome that is none of those shows nothing.
LEMMA SilentOutcome ==
  ASSUME outcome'.kind \notin Telling PROVE ShownIsRead' /\ BestIsFound'
<1>1. /\ outcome'.kind # "passages" /\ outcome'.kind # "recap" /\ outcome'.kind # "memories"
      /\ outcome'.kind # "library" /\ outcome'.kind # "web"
  BY DEF Telling
<1> QED
  BY <1>1 DEF ShownIsRead, BestIsFound

\* A document a call names is one of the readers'.
LEMMA NamedDocument ==
  ASSUME NEW v \in Values, Targeted(v) # None
  PROVE  /\ Targeted(v) \in Documents \cup {Unset} /\ Targeted(v) \in Nat \cup {Unset}
         /\ v # Unset <=> Targeted(v) # Unset
         /\ v # Unset => Targeted(v) = ParseDocumentId(v)
<1>1. Documents \in SUBSET Nat
  <2>1. ASSUME NEW r \in Readers, NEW d \in DOMAIN r.files PROVE d \in Nat
    <3>1. r.files \in Seq(Seq(Seq(Nat)) \ {<<>>, Corrupt})
      BY ReadersAssumption
    <3> QED
      BY <3>1
  <2> QED
    BY <2>1 DEF Documents
<1>2. Unset \notin Nat
  BY UnsetAssumption
<1>3. v # Unset => ParseDocumentId(v) \in Documents \cup {None}
  BY ArgumentsAssumption
<1> QED
  BY <1>1, <1>2, <1>3 DEF Targeted

\* The passages shown are those a retrieval finds.
LEMMA PassagesAre ==
  ASSUME NEW ctx, NEW score, NEW value, NEW unread, NEW limit,
         NEW result, result = RetrieveChunks(ctx, score, value, unread, limit),
         result.kind = "passages"
  PROVE  LET d == Targeted(value)
             row == IF d = Unset THEN Unset ELSE ctx.rows[d]
         IN  /\ d # None
             /\ result.passages = Retrieve(ctx.points, ctx.texts, score, row,
                  [user |-> ctx.user, document |-> d, include_unread |-> unread,
                   chapter |-> Unset, section |-> Unset, override |-> Unset,
                   limit |-> IF limit = Unset THEN TopK ELSE limit,
                   default |-> ctx.default])
<1>1. PICK d : d = Targeted(value)
  OBVIOUS
<1>2. PICK row, ask :
        /\ row = IF d = Unset THEN Unset ELSE ctx.rows[d]
        /\ ask = [user |-> ctx.user, document |-> d, include_unread |-> unread,
                  chapter |-> Unset, section |-> Unset, override |-> Unset,
                  limit |-> IF limit = Unset THEN TopK ELSE limit,
                  default |-> ctx.default]
  OBVIOUS
<1>3. PICK hits : hits = Retrieve(ctx.points, ctx.texts, score, row, ask)
  OBVIOUS
<1>4. result = IF d = None THEN NotAnId
               ELSE IF hits = <<>> THEN [kind |-> "no passages"]
               ELSE [kind |-> "passages", passages |-> hits]
  BY <1>1, <1>2, <1>3 DEF RetrieveChunks
<1>5. d # None /\ result.passages = hits
  <2>1. PICK stray, empty, shown :
          /\ stray = [kind |-> "not an id"] /\ empty = [kind |-> "no passages"]
          /\ shown = [kind |-> "passages", passages |-> hits]
    OBVIOUS
  <2>2. /\ stray.kind = "not an id" /\ empty.kind = "no passages"
        /\ shown.kind = "passages" /\ shown.passages = hits
    BY <2>1
  <2>3. result = IF d = None THEN stray ELSE IF hits = <<>> THEN empty ELSE shown
    BY <1>4, <2>1 DEF NotAnId
  <2> QED
    BY <2>2, <2>3
<1> QED
  BY <1>1, <1>2, <1>3, <1>5

\* A question about the passages.
LEMMA RetrieveShows ==
  ASSUME ReaderTyped, CallRetrieve PROVE ShownIsRead' /\ BestIsFound'
<1>1. PICK v \in Values, unread \in BOOLEAN, limit \in Limits, w \in Topics :
        Calls([document |-> v, unread |-> unread, limit |-> limit, query |-> w],
              RetrieveChunks(Context, Shelf[reader].scores[w], v, unread, limit))
  BY DEF CallRetrieve
<1>2. PICK score, result :
        /\ score = Shelf[reader].scores[w]
        /\ result = RetrieveChunks(Context, score, v, unread, limit)
  OBVIOUS
<1>3. PICK args : args = [document |-> v, unread |-> unread, limit |-> limit, query |-> w]
  OBVIOUS
<1>4. /\ DOMAIN args = {"document", "unread", "limit", "query"}
      /\ args.document = v /\ args.unread = unread /\ args.limit = limit /\ args.query = w
  BY <1>3
<1>5. /\ call'.document = v /\ call'.unread = unread /\ call'.limit = limit /\ call'.query = w
      /\ call'.rows = rows /\ outcome' = result /\ reader' = reader /\ rows' = rows
      /\ recent' = recent
  BY <1>1, <1>2, <1>3, <1>4, CallKept
<1>6. reader \in Readers /\ rows \in Rows
  BY DEF ReaderTyped, CallRetrieve, Asking
<1>7. result.kind \in {"not an id", "no passages", "passages"}
  BY <1>2, KindsOfTools
<1>8. CASE result.kind # "passages"
  BY <1>5, <1>7, <1>8, SilentOutcome DEF Telling
<1>9. CASE result.kind = "passages"
  <2>1. PICK d, row, ask :
          /\ d = Targeted(v)
          /\ row = IF d = Unset THEN Unset ELSE rows[d]
          /\ ask = [user |-> reader.user, document |-> d, include_unread |-> unread,
                    chapter |-> Unset, section |-> Unset, override |-> Unset,
                    limit |-> IF limit = Unset THEN TopK ELSE limit,
                    default |-> reader.default]
    OBVIOUS
  <2>2. PICK points, texts : points = Shelf[reader].points /\ texts = Context.texts
    OBVIOUS
  <2>3. d # None /\ result.passages = Retrieve(points, texts, score, row, ask)
    <3>1. PICK ctx : ctx = Context
      OBVIOUS
    <3>2. /\ ctx.rows = rows /\ ctx.user = reader.user /\ ctx.default = reader.default
          /\ ctx.points = points /\ ctx.texts = texts
      BY <2>2, <3>1, ContextIs
    <3>3. result = RetrieveChunks(ctx, score, v, unread, limit)
      BY <1>2, <3>1
    <3> QED
      BY <1>9, <2>1, <3>2, <3>3, PassagesAre
  <2>4. /\ d \in Documents \cup {Unset} /\ v # Unset <=> d # Unset
        /\ v # Unset => d = ParseDocumentId(v)
    BY <2>1, <2>3, NamedDocument
  <2>5. CurrentPage(row) \in Nat
    <3>1. row \in ProgressRow \cup {Unset}
      BY <1>6, <2>1, <2>4 DEF Rows
    <3> QED
      BY <3>1, RowIsTyped
  <2>6. ask.limit \in Nat
    BY <2>1, SizesAssumption, ArgumentsAssumption
  <2>7. Located(points) /\ Scored(points, score)
    <3>1. w \in Words
      BY ArgumentsAssumption
    <3> QED
      BY <1>2, <1>6, <2>2, <3>1, ShelfTyped
  <2>8. RetrievalIsSound(points, texts, score, row, ask, result.passages)
    BY <2>3, <2>5, <2>6, <2>7, RetrieveIsSound
  <2>9. BestIsFound'
    <3>1. Context.texts' = texts
      BY <1>5, <2>2 DEF Context, Stored, Docs
    <3>2. /\ Shelf[reader'].points = points /\ Shelf[reader'].scores[call'.query] = score
          /\ Targeted(call'.document) = d
          /\ row = IF d = Unset THEN Unset ELSE call'.rows[d]
      BY <1>2, <1>5, <2>1, <2>2
    <3>3. ask = [user |-> reader'.user, document |-> d,
                 include_unread |-> call'.unread, chapter |-> Unset, section |-> Unset,
                 override |-> Unset, default |-> reader'.default,
                 limit |-> IF call'.limit = Unset THEN TopK ELSE call'.limit]
      BY <1>5, <2>1
    <3>4. outcome'.kind \notin {"library", "web", "memories"} /\ outcome'.passages = result.passages
      BY <1>5, <1>9
    <3> QED
      BY <2>8, <3>1, <3>2, <3>3, <3>4 DEF BestIsFound
  <2>10. ShownIsRead'
    <3>1. outcome'.kind \notin {"recap", "memories"} /\ outcome'.passages = result.passages
      BY <1>5, <1>9
    <3>2. ASSUME v # Unset, ResolveSpoilerSafe(Unset, Override(rows[d]), reader.default) \/ ~unread,
                 NEW i \in DOMAIN result.passages
          PROVE  result.passages[i].page_end <= CurrentPage(rows[d])
      <4>1. /\ ask.document # Unset /\ row = rows[d]
            /\ ask.override = Unset /\ ask.default = reader.default /\ ask.include_unread = unread
        BY <2>1, <2>4, <3>2
      <4> QED
        BY <2>8, <3>2, <4>1 DEF RetrievalIsSound
    <3>3. /\ v # Unset => ParseDocumentId(call'.document) = d
          /\ call'.rows[d] = rows[d] /\ call'.document = v /\ call'.unread = unread
          /\ reader'.default = reader.default
      BY <1>5, <2>4
    <3> QED
      BY <3>1, <3>2, <3>3 DEF ShownIsRead, Protected
  <2> QED
    BY <2>9, <2>10
<1> QED
  BY <1>8, <1>9

\* A protected recap ends on the reader's page.
LEMMA RecapIsRead ==
  ASSUME reader \in Readers, NEW d \in Stored, NEW row \in ProgressRow \cup {Unset},
         NEW first, NEW last \in Integral, NEW result,
         IsRecap(result, Context, d, row, first, last), result.kind = "recap",
         ResolveSpoilerSafe(Unset, Override(row), reader.default)
  PROVE  /\ result.span[2] <= CurrentPage(row)
         /\ \A i \in DOMAIN result.passages : result.passages[i].page_start <= CurrentPage(row)
<1>1. PICK span, chunks, page :
        /\ span = ResolveSummarySpan(row, reader.default, first, last)
        /\ chunks = Shelf[reader].passages[d]
        /\ page = CurrentPage(row)
  OBVIOUS
<1>2. PICK from, to : from = span[1] /\ to = span[2]
  OBVIOUS
<1>3. result.span = span /\ result.passages = ListByDocumentPageRange(chunks, from, to)
  BY <1>1, <1>2, ContextIs DEF IsRecap
<1>4. page \in Nat
  BY <1>1, RowIsTyped
<1>5. to \in Int /\ to <= page
  <2>1. PICK end : end = IF last = Unset THEN page ELSE last
    OBVIOUS
  <2>2. end \in Int
    BY <1>4, <2>1 DEF Integral
  <2>3. to = Least(end, page)
    BY <1>1, <1>2, <2>1 DEF ResolveSummarySpan
  <2> QED
    BY <1>4, <2>2, <2>3 DEF Least
<1>6. /\ DOMAIN chunks \in SUBSET Nat /\ IsFiniteSet(DOMAIN chunks)
      /\ \A i \in DOMAIN chunks : IsChunk(chunks[i])
  BY <1>1, StoredIsTyped, ShelfTyped
<1>7. PICK D : D = {i \in DOMAIN chunks : chunks[i].page_start <= to /\ chunks[i].page_end >= from}
  OBVIOUS
<1>8. result.passages = Keep(chunks, D)
  BY <1>3, <1>7 DEF ListByDocumentPageRange, Filter
<1>9. D \in SUBSET Nat /\ IsFiniteSet(D) /\ \A i \in D : chunks[i].page_start <= to
  BY <1>6, <1>7, FS_Subset
<1>10. PICK at : Listing(D, at) /\ Keep(chunks, D) = [k \in 1 .. Cardinality(D) |-> chunks[at[k]]]
  BY <1>9, KeepInOrder
<1>11. ASSUME NEW i \in DOMAIN result.passages PROVE result.passages[i].page_start <= page
  <2>1. at[i] \in D /\ result.passages[i] = chunks[at[i]]
    BY <1>8, <1>10, <1>11 DEF Listing
  <2>2. chunks[at[i]].page_start \in Nat /\ chunks[at[i]].page_start <= to
    BY <1>6, <1>7, <1>9, <2>1 DEF IsChunk
  <2> QED
    BY <1>4, <1>5, <2>1, <2>2
<1> QED
  BY <1>1, <1>2, <1>3, <1>5, <1>11

\* What a recap shows, from the row there is or from the page the reader gave.
LEMMA SummarizedIsRead ==
  ASSUME reader \in Readers, rows \in Rows, NEW d, NEW first \in Integral, NEW last \in Integral,
         NEW answer, NEW result, Summarized(result, Context, d, first, last, answer),
         result.kind = "recap"
  PROVE  /\ result.row # Unset \/ first # Unset \/ last # Unset
         /\ ResolveSpoilerSafe(Unset, Override(result.row), reader.default) =>
              /\ result.span[2] <= CurrentPage(result.row)
              /\ \A i \in DOMAIN result.passages :
                   result.passages[i].page_start <= CurrentPage(result.row)
<1>1. CASE /\ d \in DOMAIN Context.titles
           /\ Context.rows[d] # Unset \/ first # Unset \/ last # Unset
           /\ IsRecap(result, Context, d, Context.rows[d], first, last)
  <2>1. PICK row : row = rows[d]
    OBVIOUS
  <2>2. d \in Stored /\ IsRecap(result, Context, d, row, first, last)
    BY <1>1, <2>1, ContextIs
  <2>3. result.row = row
    BY <2>2 DEF IsRecap
  <2>4. row \in ProgressRow \cup {Unset}
    BY <2>1, <2>2, StoredIsTyped DEF Rows
  <2> QED
    BY <1>1, <2>1, <2>2, <2>3, <2>4, ContextIs, RecapIsRead
<1>2. ASSUME NEW row, NEW from, NEW to,
             d \in DOMAIN Context.titles, to \in 0 .. Context.page_count[d],
             row = RecordPosition(to, Context.page_count[d]),
             IsRecap(result, Context, d, row, from, to)
      PROVE  /\ result.row # Unset
             /\ ResolveSpoilerSafe(Unset, Override(result.row), reader.default) =>
                  /\ result.span[2] <= CurrentPage(result.row)
                  /\ \A i \in DOMAIN result.passages :
                       result.passages[i].page_start <= CurrentPage(result.row)
  <2>1. d \in Stored
    BY <1>2, ContextIs
  <2>2. result.row = row
    BY <1>2 DEF IsRecap
  <2>3. to \in Nat
    BY <1>2
  <2>4. row \in ProgressRow /\ row # Unset
    BY <1>2, <2>3, RecordedIsTyped
  <2>5. to \in Integral
    BY <2>3 DEF Integral
  <2> QED
    BY <1>2, <2>1, <2>2, <2>4, <2>5, RecapIsRead
<1>3. result.kind \notin {"not an id", "not in the library", "ask_pages_read",
                         "no pages given", "error"}
  OBVIOUS
<1> QED
  BY <1>1, <1>2, <1>3 DEF Summarized

\* A recap, of what the reader has read.
LEMMA SummarizeShows ==
  ASSUME ReaderTyped, CallSummarize \/ ResumeSummarize PROVE ShownIsRead' /\ BestIsFound'
<1>1. CASE CallSummarize
  <2>1. PICK v \in Values \ {Unset}, first \in Pages, last \in Pages :
          Calls([tool |-> "summarize", document |-> v, first |-> first, last |-> last],
                Summarize(Context, v, first, last, None))
    BY <1>1 DEF CallSummarize
  <2>2. PICK args, d, result :
          /\ args = [tool |-> "summarize", document |-> v, first |-> first, last |-> last]
          /\ d = ParseDocumentId(v) /\ result = Summarize(Context, v, first, last, None)
    OBVIOUS
  <2>3. /\ DOMAIN args = {"tool", "document", "first", "last"}
        /\ args.first = first /\ args.last = last /\ args.document = v
    BY <2>2
  <2>4. /\ call'.first = first /\ call'.last = last /\ call'.document = v
        /\ outcome' = result /\ reader' = reader
    BY <2>1, <2>2, <2>3, CallKept
  <2>5. Summarized(result, Context, d, first, last, None)
    BY <2>2, SummarizeIs
  <2>6. reader \in Readers /\ rows \in Rows /\ first \in Integral /\ last \in Integral
    BY <1>1, ArgumentsAssumption DEF ReaderTyped, CallSummarize, Asking
  <2>7. CASE result.kind = "recap"
    <3>1. /\ result.row # Unset \/ first # Unset \/ last # Unset
          /\ ResolveSpoilerSafe(Unset, Override(result.row), reader.default) =>
               /\ result.span[2] <= CurrentPage(result.row)
               /\ \A i \in DOMAIN result.passages :
                    result.passages[i].page_start <= CurrentPage(result.row)
      BY <2>5, <2>6, <2>7, SummarizedIsRead
    <3>2. outcome'.kind = "recap"
      BY <2>4, <2>7
    <3> QED
      BY <2>4, <3>1, <3>2 DEF ShownIsRead, BestIsFound, Protected
  <2>8. CASE result.kind # "recap"
    <3>1. result.kind \notin Telling
      BY <2>5, <2>8 DEF Summarized, IsRecap, Telling
    <3> QED
      BY <2>4, <3>1, SilentOutcome
  <2> QED
    BY <2>7, <2>8
<1>2. CASE ResumeSummarize
  <2>1. PICK answer \in Answers :
          LET result == Summarize(Context, call.document, call.first, call.last, answer)
          IN  call' = [call EXCEPT !.rows = rows] /\ outcome' = result /\ reader' = reader
    BY <1>2 DEF ResumeSummarize
  <2>2. PICK value, d, result :
          /\ value = call.document /\ d = ParseDocumentId(value)
          /\ result = Summarize(Context, value, Unset, Unset, answer)
    OBVIOUS
  <2>3. /\ reader \in Readers /\ rows \in Rows /\ call.first = Unset /\ call.last = Unset
    BY <1>2 DEF ReaderTyped, ResumeSummarize
  <2>4. outcome' = result /\ reader' = reader
    BY <2>1, <2>2, <2>3
  <2>5. Summarized(result, Context, d, Unset, Unset, answer)
    BY <2>2, SummarizeIs
  <2>6. Unset \in Integral
    BY DEF Integral
  <2>7. CASE result.kind = "recap"
    <3>1. /\ result.row # Unset
          /\ ResolveSpoilerSafe(Unset, Override(result.row), reader.default) =>
               /\ result.span[2] <= CurrentPage(result.row)
               /\ \A i \in DOMAIN result.passages :
                    result.passages[i].page_start <= CurrentPage(result.row)
      BY <2>3, <2>5, <2>6, <2>7, SummarizedIsRead
    <3>2. outcome'.kind = "recap"
      BY <2>4, <2>7
    <3> QED
      BY <2>4, <3>1, <3>2 DEF ShownIsRead, BestIsFound, Protected
  <2>8. CASE result.kind # "recap"
    <3>1. result.kind \notin Telling
      BY <2>5, <2>8 DEF Summarized, IsRecap, Telling
    <3> QED
      BY <2>4, <3>1, SilentOutcome
  <2> QED
    BY <2>7, <2>8
<1> QED
  BY <1>1, <1>2

\* A reader's memories, and what a word scores them.
LEMMA ReadersRemember ==
  ASSUME NEW r \in Readers PROVE Remembered(r.memories)
<1>1. PICK memories : memories = r.memories
  OBVIOUS
<1>2. /\ memories \in Seq(ToSet(memories))
      /\ \A i, j \in DOMAIN memories :
           MemoryRow(memories[i]) /\ (i # j => memories[i].id # memories[j].id)
  BY <1>1, ReadersAssumption
<1>3. DOMAIN memories = 1 .. Len(memories)
  BY <1>2
<1>4. \A i, j \in 1 .. Len(memories) : memories[i] = memories[j] => i = j
  BY <1>2, <1>3
<1> QED
  BY <1>1, <1>2, <1>3, <1>4 DEF Remembered

\* A question scores every memory of the reader with a number.
LEMMA MemoryScoresTyped ==
  ASSUME reader \in Readers, NEW w, NEW i \in 1 .. Len(reader.memories)
  PROVE  MemoryScores(w)[reader.memories[i].id] \in Nat
<1>1. DOMAIN reader.memories = 1 .. Len(reader.memories)
  BY ReadersRemember DEF Remembered
<1> QED
  BY <1>1 DEF MemoryScores

\* What is said of a document that is not named is no list of memories.
LEMMA NoIdNoMemories == NotAnId.kind # "memories"
  BY DEF NotAnId

\* A question about the memories.
LEMMA RecallShows ==
  ASSUME ReaderTyped, CallRecall PROVE ShownIsRead' /\ BestIsFound'
<1>1. PICK v \in Values, w \in Topics \cup {Unset}, type \in MemoryTypes,
           first \in Pages, last \in Pages, limit \in Limits :
        LET q == [document |-> v, type |-> type, page_start |-> first, page_end |-> last,
                  limit |-> limit, query |-> IF w = Unset THEN Unset ELSE MemoryScores(w)]
        IN  Calls(q, QueryLongTermMemory(Context, q))
  BY DEF CallRecall
<1>2. PICK ctx, q, result :
        /\ ctx = Context
        /\ q = [document |-> v, type |-> type, page_start |-> first, page_end |-> last,
                limit |-> limit, query |-> IF w = Unset THEN Unset ELSE MemoryScores(w)]
        /\ result = QueryLongTermMemory(ctx, q)
  OBVIOUS
<1>3. /\ DOMAIN q = {"document", "type", "page_start", "page_end", "limit", "query"}
      /\ q.document = v /\ q.type = type /\ q.page_start = first /\ q.page_end = last
      /\ q.limit = limit /\ q.query = IF w = Unset THEN Unset ELSE MemoryScores(w)
  BY <1>2
<1>4. Calls(q, result)
  BY <1>1, <1>2
<1>5. /\ call'.document = v /\ call'.type = type /\ call'.page_start = first
      /\ call'.page_end = last /\ call'.limit = limit /\ call'.rows = rows
      /\ outcome' = result /\ reader' = reader
  BY <1>3, <1>4, CallKept
<1>6. reader \in Readers /\ rows \in Rows
  BY DEF ReaderTyped, CallRecall, Asking
<1>7. result.kind \in {"not an id", "no memories", "memories"}
  BY <1>2, KindsOfTools
<1>8. CASE result.kind # "memories"
  BY <1>5, <1>7, <1>8, SilentOutcome DEF Telling
<1>9. CASE result.kind = "memories"
  <2>1. PICK target, row, page :
          /\ target = Targeted(v)
          /\ row = IF target = Unset THEN Unset ELSE rows[target]
          /\ page = CurrentPage(row)
    OBVIOUS
  <2>2. target # None
    <3>1. target = None => result = NotAnId
      BY <1>2, <1>3, <2>1 DEF QueryLongTermMemory
    <3> QED
      BY <1>9, <3>1, NoIdNoMemories
  <2>3. /\ target \in Documents \cup {Unset} /\ target \in Nat \cup {Unset}
        /\ v # Unset <=> target # Unset
        /\ v # Unset => target = ParseDocumentId(v)
    BY <2>1, <2>2, NamedDocument
  <2>4. page \in Nat
    <3>1. row \in ProgressRow \cup {Unset}
      BY <1>6, <2>1, <2>3 DEF Rows
    <3> QED
      BY <2>1, <3>1, RowIsTyped
  <2>5. /\ ctx.memories = reader.memories /\ ctx.rows = rows
    BY <1>2, ContextIs
  <2>6. Remembered(ctx.memories)
    BY <1>6, <2>5, ReadersRemember
  <2>7. q.query = Unset \/ \A i \in 1 .. Len(ctx.memories) : q.query[ctx.memories[i].id] \in Nat
    BY <1>3, <1>6, <2>5, MemoryScoresTyped
  <2>8. limit \in Nat \cup {Unset}
    BY ArgumentsAssumption
  <2>9. PICK top : top = IF limit = Unset THEN TopK ELSE limit
    OBVIOUS
  <2>10. Recalled(ToSet(reader.memories), type, target, page, first, last, top, result.memories)
    <3>1. target = Targeted(q.document) /\ target # Unset => page = CurrentPage(ctx.rows[target])
      BY <1>3, <2>1, <2>5
    <3>2. target = Targeted(q.document) /\ q.limit \in Nat \cup {Unset}
      BY <1>3, <2>1, <2>8
    <3>3. Recalled(ToSet(ctx.memories), q.type, target, page, q.page_start, q.page_end,
                   IF q.limit = Unset THEN TopK ELSE q.limit, result.memories)
      BY <1>2, <1>9, <2>3, <2>4, <2>6, <2>7, <3>1, <3>2, RecallIsSound
    <3> QED
      BY <1>3, <2>5, <2>9, <3>3
  <2>11. outcome'.kind = "memories" /\ outcome'.memories = result.memories
    BY <1>5, <1>9
  <2>12. PICK all, open, asked :
           /\ all = ToSet(reader.memories)
           /\ open = {m \in all : /\ Match(m.type, type) /\ Match(m.document, target)
                                  /\ target # Unset => m.page_end <= page}
           /\ asked = {m \in open : OverlapsPageRange(m, first, last)}
    OBVIOUS
  <2>13. /\ ToSet(result.memories) \subseteq asked
         /\ Len(result.memories) < top /\ Cardinality(open) <= PageFilteredLimit =>
              ToSet(result.memories) = asked
    BY <2>10, <2>12 DEF Recalled
  <2>14. ShownIsRead'
    <3>1. ASSUME v # Unset, NEW i \in DOMAIN result.memories
          PROVE  result.memories[i].document = target /\ result.memories[i].page_end <= page
      <4>1. result.memories[i] \in ToSet(result.memories)
        BY DEF ToSet
      <4>2. result.memories[i] \in open
        BY <2>12, <2>13, <4>1
      <4> QED
        BY <2>3, <2>12, <3>1, <4>2 DEF Match
    <3>2. /\ v # Unset => ParseDocumentId(call'.document) = target
          /\ v # Unset => page = CurrentPage(call'.rows[target])
          /\ call'.document = v
      BY <1>5, <2>1, <2>3
    <3>3. outcome'.kind # "passages" /\ outcome'.kind # "recap"
      BY <2>11
    <3> QED
      BY <2>11, <3>1, <3>2, <3>3 DEF ShownIsRead
  <2>15. BestIsFound'
    <3>1. /\ outcome'.kind # "passages" /\ outcome'.kind \notin {"library", "web"}
      BY <2>11
    <3>2. /\ Targeted(call'.document) = target
          /\ row = IF target = Unset THEN Unset ELSE call'.rows[target]
          /\ all = ToSet(reader'.memories)
          /\ top = IF call'.limit = Unset THEN TopK ELSE call'.limit
      BY <1>5, <2>1, <2>9, <2>12
    <3>3. /\ open = {m \in all : /\ Match(m.type, call'.type) /\ Match(m.document, target)
                                 /\ target # Unset => m.page_end <= CurrentPage(row)}
          /\ asked = {m \in open : OverlapsPageRange(m, call'.page_start, call'.page_end)}
      BY <1>5, <2>1, <2>12
    <3> QED
      BY <2>11, <2>13, <3>1, <3>2, <3>3 DEF BestIsFound
  <2> QED
    BY <2>14, <2>15
<1> QED
  BY <1>8, <1>9

\* A recommendation, asked for or answered.
LEMMA RecommendShows ==
  ASSUME ReaderTyped, AskedWell, CallRecommend \/ CallWebSearch \/ ResumeApproval
  PROVE  ShownIsRead' /\ BestIsFound'
<1>1. ASSUME NEW lib, NEW result, NEW limit \in Nat, NEW web, NEW query, NEW answer, NEW ctx,
             ctx = Context, result = Recommend(ctx, web, query, limit, answer),
             lib = Library, reader # Nobody
      PROVE  /\ result.kind \in {"library", "tool_approval", "web"}
             /\ RecommendationsAreSound(lib, limit, result.internal)
  <2>1. Stocked(lib) /\ ctx.library = lib
    BY <1>1, LibraryStocked, ContextIs
  <2>2. /\ result.kind \in {"library", "tool_approval", "web"}
        /\ result.internal = RecommendFromLibrary(lib, limit)
    BY <1>1, <2>1, KindsOfTools
  <2> QED
    BY <2>1, <2>2, RecommendIsSound
<1>2. ASSUME NEW lib, NEW result, NEW limit \in Nat,
             Library' = lib, outcome' = result, call'.limit = limit,
             result.kind \in {"library", "tool_approval", "web"},
             RecommendationsAreSound(lib, limit, result.internal)
      PROVE  ShownIsRead' /\ BestIsFound'
  <2>1. outcome'.kind # "passages" /\ outcome'.kind # "recap" /\ outcome'.kind # "memories"
    BY <1>2
  <2> QED
    BY <1>2, <2>1 DEF ShownIsRead, BestIsFound
<1>3. ASSUME outcome'.kind \in {"tool_approval", "denied", "web"}, call'.tool # "recommend"
      PROVE  ShownIsRead' /\ BestIsFound'
  <2>1. /\ outcome'.kind # "passages" /\ outcome'.kind # "recap" /\ outcome'.kind # "memories"
    BY <1>3
  <2> QED
    BY <1>3, <2>1 DEF ShownIsRead, BestIsFound
<1>4. CASE CallRecommend
  <2>1. PICK web \in BOOLEAN, w \in Topics \cup {Unset}, limit \in Limits \ {Unset} :
          Calls([tool |-> "recommend", web |-> web, query |-> w, limit |-> limit,
                 answer |-> None],
                Recommend(Context, web, w, limit, None))
    BY <1>4 DEF CallRecommend
  <2>2. PICK args, ctx, lib :
          /\ args = [tool |-> "recommend", web |-> web, query |-> w, limit |-> limit,
                     answer |-> None]
          /\ ctx = Context /\ lib = Library
    OBVIOUS
  <2>3. PICK result : result = Recommend(ctx, web, w, limit, None)
    OBVIOUS
  <2>4. DOMAIN args = {"tool", "web", "query", "limit", "answer"} /\ args.limit = limit
    BY <2>2
  <2>5. /\ call'.limit = limit /\ outcome' = result /\ UNCHANGED <<reader, rows, recent>>
    BY <2>1, <2>2, <2>3, <2>4, CallKept
  <2>6. limit \in Nat /\ reader # Nobody
    BY <1>4, ArgumentsAssumption DEF CallRecommend, Asking
  <2>7. Library' = lib
    BY <2>2, <2>5, SameLibrary
  <2>8. /\ result.kind \in {"library", "tool_approval", "web"}
        /\ RecommendationsAreSound(lib, limit, result.internal)
    BY <1>1, <2>2, <2>3, <2>6
  <2> QED
    BY <1>2, <2>5, <2>6, <2>7, <2>8
<1>5. CASE CallWebSearch
  <2>1. PICK w \in Topics :
          Calls([tool |-> "web_search", query |-> w, answer |-> None], WebSearch(w, None))
    BY <1>5 DEF CallWebSearch
  <2>2. call'.tool = "web_search" /\ outcome' = WebSearch(w, None)
    BY <2>1, CallKept
  <2>3. outcome'.kind \in {"tool_approval", "denied", "web"}
    BY <2>2, KindsOfTools
  <2> QED
    BY <1>3, <2>2, <2>3
<1>6. CASE ResumeApproval
  <2>1. PICK answer \in Answers :
          /\ outcome.kind = "tool_approval"
          /\ call' = [call EXCEPT !.answer = answer]
          /\ outcome' = IF call.tool = "recommend"
                        THEN Recommend(Context, call.web, call.query, call.limit, answer)
                        ELSE WebSearch(call.query, answer)
          /\ UNCHANGED <<reader, rows, recent>>
    BY <1>6 DEF ResumeApproval
  <2>2. Asked \subseteq DOMAIN call /\ call = [f \in DOMAIN call |-> call[f]]
    BY <2>1 DEF AskedWell
  <2>3. CASE call.tool = "recommend"
    <3>1. reader # Nobody /\ "limit" \in DOMAIN call /\ call.limit \in Nat
      BY <2>1, <2>3 DEF ReaderTyped
    <3>2. PICK ctx, lib, web, query, limit :
            /\ ctx = Context /\ lib = Library
            /\ web = call.web /\ query = call.query /\ limit = call.limit
      OBVIOUS
    <3>3. PICK result : result = Recommend(ctx, web, query, limit, answer)
      OBVIOUS
    <3>4. call'.limit = limit /\ outcome' = result
      BY <2>1, <2>2, <2>3, <3>1, <3>2, <3>3
    <3>5. Library' = lib
      BY <2>1, <3>2, SameLibrary
    <3>6. /\ result.kind \in {"library", "tool_approval", "web"}
          /\ RecommendationsAreSound(lib, limit, result.internal)
      BY <1>1, <3>1, <3>2, <3>3
    <3> QED
      BY <1>2, <3>1, <3>2, <3>4, <3>5, <3>6
  <2>4. CASE call.tool # "recommend"
    <3>1. call'.tool = call.tool
      BY <2>1, <2>2 DEF Asked
    <3>2. outcome'.kind \in {"tool_approval", "denied", "web"}
      <4>1. \E query : outcome' = WebSearch(query, answer)
        BY <2>1, <2>4
      <4> QED
        BY <4>1, KindsOfTools
    <3> QED
      BY <1>3, <2>4, <3>1, <3>2
  <2> QED
    BY <2>3, <2>4
<1> QED
  BY <1>4, <1>5, <1>6

\* Everything that holds of a question and of what it is answered.
QuestionInv == AskedWell /\ ReaderTyped /\ ShownIsRead /\ BestIsFound

\* It holds before the first question,
LEMMA QuestionAtFirst == Init => QuestionInv
<1> SUFFICES ASSUME Init PROVE QuestionInv
  OBVIOUS
<1>1. outcome.kind = "idle"
  BY DEF Init, Idle
<1>2. AskedWell
  BY <1>1 DEF AskedWell
<1>3. ShownIsRead /\ BestIsFound
  BY <1>1 DEF ShownIsRead, BestIsFound
<1> QED
  BY <1>2, <1>3, ReaderTypedAtFirst DEF QuestionInv

\* A step that leaves the question as it is shows nothing more.
LEMMA SameQuestion ==
  ASSUME ShownIsRead, BestIsFound, UNCHANGED <<reader, rows, recent, call, outcome>>
  PROVE  ShownIsRead' /\ BestIsFound'
<1>1. /\ reader' = reader /\ rows' = rows /\ recent' = recent /\ call' = call
      /\ outcome' = outcome
  OBVIOUS
<1>2. Library' = Library /\ Context.texts' = Context.texts
  <2>1. Context.texts' = Context.texts
    BY <1>1 DEF Context, Stored, Docs
  <2> QED
    BY <2>1, SameLibrary
<1>3. ShownIsRead'
  BY <1>1 DEF ShownIsRead, Protected
<1>4. BestIsFound'
  BY <1>1, <1>2 DEF BestIsFound
<1> QED
  BY <1>3, <1>4

\* and every step keeps it.
LEMMA QuestionStep == QuestionInv /\ [Next]_vars => QuestionInv'
<1> SUFFICES ASSUME QuestionInv, [Next]_vars PROVE QuestionInv'
  OBVIOUS
<1>1. AskedWell /\ ReaderTyped /\ ShownIsRead /\ BestIsFound
  BY DEF QuestionInv
<1>2. AskedWell' /\ ReaderTyped'
  BY <1>1, AskedStep, ReaderTypedStep
<1>3. CASE CallRetrieve
  BY <1>1, <1>2, <1>3, RetrieveShows DEF QuestionInv
<1>4. CASE CallSummarize \/ ResumeSummarize
  BY <1>1, <1>2, <1>4, SummarizeShows DEF QuestionInv
<1>5. CASE CallRecall
  BY <1>1, <1>2, <1>5, RecallShows DEF QuestionInv
<1>6. CASE CallRecommend \/ CallWebSearch \/ ResumeApproval
  BY <1>1, <1>2, <1>6, RecommendShows DEF QuestionInv
<1>7. CASE CallProgress
  <2>1. outcome'.kind \in {"not an id", "list", "not tracked", "progress"}
    <3>1. \E ctx, v : outcome' = GetReadingProgress(ctx, v)
      BY <1>7 DEF CallProgress, Calls
    <3> QED
      BY <3>1, KindsOfTools
  <2> QED
    BY <1>2, <2>1, SilentOutcome DEF QuestionInv, Telling
<1>8. CASE Chunk \/ Stream \/ Report \/ Score \/ RecallNote
  BY <1>2, <1>8, KindsOfComputations, SilentOutcome DEF QuestionInv, Telling
<1>9. CASE ReadOn
  <2>1. outcome' = outcome /\ outcome.kind \in {"ask_pages_read", "tool_approval"}
    BY <1>9 DEF ReadOn, Paused
  <2> QED
    BY <1>2, <2>1, SilentOutcome DEF QuestionInv, Telling
<1>10. CASE Talk \/ UNCHANGED vars
  <2>1. UNCHANGED <<reader, rows, recent, call, outcome>>
    BY <1>10 DEF Talk, vars, question
  <2> QED
    BY <1>1, <1>2, <2>1, SameQuestion DEF QuestionInv
<1> QED
  BY <1>3, <1>4, <1>5, <1>6, <1>7, <1>8, <1>9, <1>10 DEF Next

\* With spoiler protection on, what a tool shows of a document is read.
THEOREM ShownAlwaysRead == Spec => []ShownIsRead
<1>1. QuestionInv => ShownIsRead
  BY DEF QuestionInv
<1> QED
  BY <1>1, QuestionAtFirst, QuestionStep, PTL DEF Spec

\* What a question finds is the best there is.
THEOREM BestAlwaysFound == Spec => []BestIsFound
<1>1. QuestionInv => BestIsFound
  BY DEF QuestionInv
<1> QED
  BY <1>1, QuestionAtFirst, QuestionStep, PTL DEF Spec

-----------------------------------------------------------------------------
(* What the judges see.                                                    *)

\* at lists the numbers of D, the least first.
Ascends(D, n, at) ==
  /\ at \in [1 .. n -> D]
  /\ \A i, j \in 1 .. n : i < j => at[i] < at[j]
  /\ \A x \in D : \E k \in 1 .. n : at[k] = x

\* There is one listing of a set of numbers.
LEMMA OneListing ==
  ASSUME NEW n \in Nat, NEW D \in SUBSET Nat, NEW at, NEW bt,
         Ascends(D, n, at), Ascends(D, n, bt)
  PROVE  \A j \in 1 .. n : at[j] = bt[j]
<1> USE DEF Ascends
<1> DEFINE T == {j \in 1 .. n : at[j] # bt[j]}
<1>1. SUFFICES ASSUME T # {} PROVE FALSE
  OBVIOUS
<1>2. T \in SUBSET Nat
  OBVIOUS
<1>3. PICK j \in T : \A k \in Nat : k < j => k \notin T
  <2> HIDE DEF T
  <2> QED
    BY <1>1, <1>2, LeastNumber
<1>4. j \in 1 .. n /\ at[j] # bt[j] /\ at[j] \in Nat /\ bt[j] \in Nat
  OBVIOUS
<1>5. \A i \in 1 .. n : i < j => at[i] = bt[i]
  BY <1>3
<1>6. ASSUME at[j] < bt[j] PROVE FALSE
  <2>1. PICK i \in 1 .. n : bt[i] = at[j]
    BY <1>4
  <2>2. i < j
    <3>1. ~(j < i) /\ i # j
      BY <1>4, <1>6, <2>1
    <3> QED
      BY <1>4, <3>1
  <2>3. at[i] = at[j] /\ at[i] < at[j]
    BY <1>4, <1>5, <2>1, <2>2
  <2> QED
    BY <1>4, <2>3
<1>7. ASSUME bt[j] < at[j] PROVE FALSE
  <2>1. PICK i \in 1 .. n : at[i] = bt[j]
    BY <1>4
  <2>2. i < j
    <3>1. ~(j < i) /\ i # j
      BY <1>4, <1>7, <2>1
    <3> QED
      BY <1>4, <3>1
  <2>3. bt[i] = bt[j] /\ bt[i] < bt[j]
    BY <1>4, <1>5, <2>1, <2>2
  <2> QED
    BY <1>4, <2>3
<1> QED
  BY <1>4, <1>6, <1>7

\* What is kept up to a last element is that element behind what is kept before it.
LEMMA KeepUpTo ==
  ASSUME NEW X, NEW s \in Seq(X), NEW k \in 1 .. Len(s),
         NEW B \in SUBSET (1 .. Len(s)), \A x \in B : x < k
  PROVE  /\ Keep(s, B \cup {k}) # <<>>
         /\ Last(Keep(s, B \cup {k})) = s[k]
         /\ Front(Keep(s, B \cup {k})) = Keep(s, B)
<1>1. PICK D : D = B \cup {k}
  OBVIOUS
<1>2. /\ IsFiniteSet(B) /\ B \in SUBSET Nat /\ IsFiniteSet(D) /\ D \in SUBSET Nat
      /\ k \in Nat /\ \A x \in D : x \in Nat /\ x \in 1 .. Len(s)
  <2>1. 1 \in Int /\ Len(s) \in Int /\ Len(s) \in Nat
    OBVIOUS
  <2>2. IsFiniteSet(1 .. Len(s))
    BY ONLY <2>1, FS_Interval
  <2>3. D \in SUBSET (1 .. Len(s))
    BY <1>1
  <2>4. IsFiniteSet(B) /\ IsFiniteSet(D)
    BY <2>2, <2>3, FS_Subset
  <2>5. \A x \in D : x \in Nat /\ x \in 1 .. Len(s)
    BY <2>3
  <2>6. k \in Nat /\ \A x \in B : x \in Nat
    OBVIOUS
  <2> QED
    BY <2>4, <2>5, <2>6
<1>3. PICK n \in Nat : n = Cardinality(B)
  BY <1>2, FS_CardinalityType
<1>4. Cardinality(D) = n + 1
  <2>1. k \notin B
    <3>1. k \in Nat /\ ~(k < k)
      OBVIOUS
    <3> QED
      BY <3>1
  <2> QED
    BY <1>1, <1>2, <1>3, <2>1, FS_AddElement
<1>5. PICK bt : Listing(B, bt) /\ Keep(s, B) = [j \in 1 .. Cardinality(B) |-> s[bt[j]]]
  <2>1. IsFiniteSet(B) /\ B \in SUBSET Nat
    BY <1>2
  <2> QED
    BY ONLY <2>1, KeepInOrder
<1>6. PICK at : Listing(D, at) /\ Keep(s, D) = [j \in 1 .. Cardinality(D) |-> s[at[j]]]
  <2>1. IsFiniteSet(D) /\ D \in SUBSET Nat
    BY <1>2
  <2> QED
    BY ONLY <2>1, KeepInOrder
<1>7. /\ bt \in [1 .. n -> B]
      /\ \A i, j \in 1 .. n : i < j => bt[i] < bt[j]
      /\ \A x \in B : \E j \in 1 .. n : bt[j] = x
  BY <1>3, <1>5 DEF Listing
<1>8. /\ at \in [1 .. n + 1 -> D]
      /\ \A i, j \in 1 .. n + 1 : i < j => at[i] < at[j]
      /\ \A x \in D : \E j \in 1 .. n + 1 : at[j] = x
  BY <1>4, <1>6 DEF Listing
<1>9. at[n + 1] = k
  <2>1. PICK j \in 1 .. n + 1 : at[j] = k
    BY <1>1, <1>8
  <2>2. at[n + 1] \in D /\ n + 1 \in 1 .. n + 1
    BY <1>8
  <2>3. j = n + 1
    <3>1. SUFFICES ASSUME j < n + 1 PROVE FALSE
      OBVIOUS
    <3>2. k < at[n + 1]
      BY <1>8, <2>1, <2>2, <3>1
    <3>3. at[n + 1] < k \/ at[n + 1] = k
      BY <1>1, <2>2
    <3> QED
      <4>1. at[n + 1] \in Nat /\ k \in Nat
        BY <1>2, <2>2
      <4> QED
        BY <3>2, <3>3, <4>1
  <2> QED
    BY <2>1, <2>3
<1>10. PICK ct : ct = [j \in 1 .. n |-> at[j]]
  OBVIOUS
<1>11. ASSUME NEW j \in 1 .. n PROVE ct[j] = at[j] /\ ct[j] \in B /\ j \in 1 .. n + 1
  <2>1. j \in 1 .. n + 1 /\ n + 1 \in 1 .. n + 1 /\ j < n + 1
    OBVIOUS
  <2>2. at[j] < k /\ at[j] \in D
    BY <1>8, <1>9, <2>1
  <2>3. at[j] \in Nat /\ k \in Nat
    BY <1>2, <2>2
  <2>4. at[j] # k
    BY <2>2, <2>3
  <2> QED
    BY <1>1, <1>10, <2>1, <2>2, <2>4
<1>12. /\ ct \in [1 .. n -> B]
       /\ \A i, j \in 1 .. n : i < j => ct[i] < ct[j]
  BY <1>8, <1>10, <1>11
<1>13. ASSUME NEW x \in B PROVE \E j \in 1 .. n : ct[j] = x
  <2>1. PICK j \in 1 .. n + 1 : at[j] = x
    BY <1>1, <1>8
  <2>2. x < k /\ x \in Nat
    BY <1>2
  <2>3. j # n + 1
    BY <1>9, <2>1, <2>2
  <2> QED
    BY <1>11, <2>1, <2>3
<1>14. \A j \in 1 .. n : ct[j] = bt[j]
  <2>1. B \in SUBSET Nat
    BY <1>2
  <2>2. Ascends(B, n, bt)
    BY <1>7 DEF Ascends
  <2>3. Ascends(B, n, ct)
    BY <1>12, <1>13 DEF Ascends
  <2> QED
    BY <1>3, <2>1, <2>2, <2>3, OneListing
<1>15. PICK t, u : t = Keep(s, D) /\ u = Keep(s, B)
  OBVIOUS
<1>16. /\ t = [j \in 1 .. n + 1 |-> s[at[j]]]
       /\ u = [j \in 1 .. n |-> s[bt[j]]]
  BY <1>3, <1>4, <1>5, <1>6, <1>15
<1>17. t \in Seq(X) /\ Len(t) = n + 1
  <2>1. ASSUME NEW j \in 1 .. n + 1 PROVE s[at[j]] \in X
    <3>1. at[j] \in D
      BY <1>8
    <3>2. at[j] \in 1 .. Len(s)
      BY <1>2, <3>1
    <3> QED
      BY <3>2
  <2>2. t \in [1 .. n + 1 -> X]
    BY <1>16, <2>1
  <2> QED
    BY <2>2, FunctionIsSeq
<1>18. t # <<>> /\ Last(t) = s[k]
  BY <1>9, <1>16, <1>17 DEF Last
<1>19. Front(t) = u
  <2>1. Front(t) = SubSeq(t, 1, n)
    BY <1>17 DEF Front
  <2>2. SubSeq(t, 1, n) = [j \in 1 .. n |-> t[j]]
    BY <1>17
  <2>3. \A j \in 1 .. n : t[j] = s[bt[j]]
    BY <1>11, <1>14, <1>16
  <2> QED
    BY <1>16, <2>1, <2>2, <2>3
<1> QED
  BY <1>1, <1>15, <1>18, <1>19

\* What was said before a turn.
Earlier(s, turn) ==
  Filter(s, LAMBDA m : /\ m.turn < turn /\ m.text # <<>> /\ m.role \notin {"tool", "note"})

\* The reader's message of a turn, with notes behind it and earlier turns in front.
MessageAt(s, turn, k) ==
  /\ k \in 1 .. Len(s)
  /\ s[k].role = "human" /\ s[k].turn = turn /\ s[k].text # <<>>
  /\ \A i \in 1 .. Len(s) : i < k => s[i].turn < turn
  /\ \A i \in 1 .. Len(s) : k < i => s[i].turn = turn /\ s[i].role = "note"

\* The lines a judge could see are those of earlier turns.
LEMMA LinesAreEarlier ==
  ASSUME NEW s \in Seq(Messages), NEW turn \in Nat, NEW k, MessageAt(s, turn, k)
  PROVE  WithoutLast(WithoutLast(Filter(s, GuardrailHistoryLine), "ai"), "human")
           = Earlier(s, turn)
<1> DEFINE n == Len(s)
           B == {i \in DOMAIN s : s[i].turn < turn /\ s[i].text # <<>>
                                  /\ s[i].role \notin {"tool", "note"}}
           D == {i \in DOMAIN s : s[i].text # <<>> /\ s[i].role \in {"human", "ai", "seed"}}
<1>1. /\ DOMAIN s = 1 .. n /\ n \in Nat /\ k \in 1 .. n
      /\ \A i \in 1 .. n : s[i].role \in {"human", "ai", "tool", "note", "seed"}
                           /\ s[i].turn \in Nat
  <2>1. ASSUME NEW i \in 1 .. Len(s) PROVE s[i] \in Messages
    OBVIOUS
  <2> QED
    BY <2>1, SMTT(30) DEF MessageAt, Messages, Roles
<1>2. s[k].role = "human" /\ s[k].turn = turn /\ s[k].text # <<>>
  BY DEF MessageAt
<1>3. ASSUME NEW i \in 1 .. n
      PROVE  /\ i < k => s[i].turn < turn
             /\ k < i => s[i].turn = turn /\ s[i].role = "note"
             /\ i < k \/ i = k \/ k < i
  BY <1>1 DEF MessageAt
<1>4. ASSUME NEW i \in 1 .. n PROVE i \in B => i < k
  BY <1>1, <1>2, <1>3
<1>5. ASSUME NEW i \in 1 .. n PROVE i \in D <=> i \in B \/ i = k
  BY <1>1, <1>2, <1>3
<1>6. D = B \cup {k} /\ B \in SUBSET (1 .. n) /\ \A i \in B : i < k
  BY <1>1, <1>4, <1>5
<1>7. Filter(s, GuardrailHistoryLine) = Keep(s, D)
  BY DEF Filter, GuardrailHistoryLine
<1>8. Earlier(s, turn) = Keep(s, B)
  BY DEF Filter, Earlier
<1> HIDE DEF B, D
<1>9. PICK lines : lines = Keep(s, D)
  OBVIOUS
<1>10. lines # <<>> /\ Last(lines) = s[k] /\ Front(lines) = Keep(s, B)
  BY <1>1, <1>6, <1>9, KeepUpTo
<1>11. WithoutLast(lines, "ai") = lines
  BY <1>2, <1>10 DEF WithoutLast
<1>12. WithoutLast(lines, "human") = Keep(s, B)
  BY <1>2, <1>10 DEF WithoutLast
<1> QED
  BY <1>7, <1>8, <1>9, <1>11, <1>12

\* The readers' messages among some lines.
Human(lines) == {i \in DOMAIN lines : lines[i].role = "human"}

\* Of enough messages of the reader, there is one from which on there are n.
LEMMA FromTheLast ==
  ASSUME NEW D \in SUBSET Nat, IsFiniteSet(D), NEW n \in Nat \ {0}, n <= Cardinality(D)
  PROVE  \E i \in D : Cardinality({j \in D : j >= i}) = n
<1> DEFINE ahead == [x \in D |-> {y \in D : x < y}]
<1>1. StrictOrder(D, ahead)
  <2>1. ahead \in [D -> SUBSET D]
    OBVIOUS
  <2>2. \A x \in D : x \notin ahead[x]
    OBVIOUS
  <2>3. ASSUME NEW x \in D, NEW y \in ahead[x], NEW z \in ahead[y] PROVE z \in ahead[x]
    <3>1. y \in D /\ x < y
      BY <2>3
    <3>2. z \in D /\ y < z
      BY <2>3, <3>1
    <3> QED
      BY <3>1, <3>2
  <2>4. \A x, y \in D : x # y => x \in ahead[y] \/ y \in ahead[x]
    OBVIOUS
  <2> QED
    BY <2>1, <2>2, <2>3, <2>4 DEF StrictOrder
<1>2. \A x \in D : ahead[x] = {y \in D : x < y}
  OBVIOUS
<1> HIDE DEF ahead
<1>3. Cardinality(D) \in Nat /\ n \in 1 .. Cardinality(D)
  BY FS_CardinalityType
<1>4. PICK i \in D : Cardinality(ahead[i]) = n - 1
  BY <1>1, <1>3, RankIsTaken, ZenonT(30)
<1>5. PICK A : A = ahead[i]
  OBVIOUS
<1>6. A \in SUBSET D /\ i \notin A /\ {j \in D : j >= i} = A \cup {i}
  <2>1. \A j \in D : j \in Nat /\ (j >= i <=> i < j \/ j = i)
    OBVIOUS
  <2>2. A = {y \in D : i < y}
    BY <1>2, <1>5
  <2>3. ~(i < i)
    OBVIOUS
  <2> QED
    BY <2>1, <2>2, <2>3
<1>7. IsFiniteSet(A)
  BY <1>6, FS_Subset
<1>8. Cardinality(A \cup {i}) = n
  <2>1. Cardinality(A \cup {i}) = Cardinality(A) + 1
    BY <1>6, <1>7, FS_AddElement
  <2> QED
    BY <1>4, <1>5, <2>1
<1> QED
  BY <1>6, <1>8

\* From that message on, a judge sees the last lines there are.
LEMMA LastLines ==
  ASSUME NEW lines \in Seq(Messages), NEW i \in Human(lines), NEW seen,
         seen = SubSeq(lines, i, Len(lines))
  PROVE  /\ IsSuffix(seen, lines) /\ seen[1].role = "human"
         /\ Cardinality(Human(seen)) = Cardinality({j \in Human(lines) : j >= i})
<1>1. PICK n \in Nat : n = Len(lines)
  OBVIOUS
<1>2. i \in 1 .. n /\ DOMAIN lines = 1 .. n /\ lines[i].role = "human"
  BY <1>1 DEF Human
<1>3. PICK m \in Nat : m = n - i + 1 /\ 1 <= m /\ m <= n
  BY <1>1, <1>2
<1>4. /\ seen = [j \in 1 .. m |-> lines[i + j - 1]]
      /\ \A j \in 1 .. m : i + j - 1 \in 1 .. n
  BY <1>1, <1>2, <1>3
<1>5. \A j \in 1 .. m : lines[i + j - 1] \in Messages
  BY <1>1, <1>4
<1>6. seen \in Seq(Messages) /\ Len(seen) = m /\ DOMAIN seen = 1 .. m
  <2>1. seen \in [1 .. m -> Messages]
    BY <1>4, <1>5
  <2> QED
    BY <2>1, FunctionIsSeq
<1>7. \A j \in 1 .. m : seen[j] = lines[i + j - 1]
  BY <1>4
<1>8. seen[1].role = "human"
  BY <1>2, <1>3, <1>7
<1>9. IsSuffix(seen, lines)
  <2>1. PICK rs, rl : rs = Reverse(seen) /\ rl = Reverse(lines)
    OBVIOUS
  <2>2. rs = [j \in 1 .. m |-> seen[m - j + 1]] /\ rl = [j \in 1 .. n |-> lines[n - j + 1]]
    BY <1>1, <1>6, <2>1 DEF Reverse
  <2>3. \A j \in 1 .. m : m - j + 1 \in 1 .. m /\ j \in 1 .. n /\ n - j + 1 \in 1 .. n
    BY <1>3
  <2>4. ASSUME NEW j \in 1 .. m PROVE rs[j] = rl[j]
    <3>1. i + (m - j + 1) - 1 = n - j + 1
      BY <1>2, <1>3
    <3> QED
      BY <1>7, <2>2, <2>3, <3>1
  <2>5. rs \in Seq(Messages) /\ Len(rs) = m
    <3>1. rs \in [1 .. m -> Messages]
      BY <1>5, <1>7, <2>2, <2>3
    <3> QED
      BY <3>1, FunctionIsSeq
  <2>6. rl \in Seq(Messages) /\ Len(rl) = n
    <3>1. \A j \in 1 .. n : n - j + 1 \in 1 .. n
      OBVIOUS
    <3>2. rl \in [1 .. n -> Messages]
      BY <1>1, <2>2, <3>1
    <3> QED
      BY <3>2, FunctionIsSeq
  <2>7. SubSeq(rs, 1, m) = [j \in 1 .. m |-> rs[j]] /\ SubSeq(rl, 1, m) = [j \in 1 .. m |-> rl[j]]
    BY <1>3, <2>5, <2>6
  <2>8. SubSeq(rs, 1, m) = SubSeq(rl, 1, m)
    BY <2>4, <2>7
  <2> QED
    BY <1>3, <2>1, <2>5, <2>6, <2>8 DEF IsSuffix, IsPrefix
<1>10. Cardinality(Human(seen)) = Cardinality({j \in Human(lines) : j >= i})
  <2> DEFINE S == Human(seen)
             T == {j \in Human(lines) : j >= i}
             f == [j \in S |-> i + j - 1]
  <2>1. ASSUME NEW j \in 1 .. m PROVE j \in S <=> i + j - 1 \in T
    <3>1. i + j - 1 \in 1 .. n /\ i + j - 1 >= i
      BY <1>2, <1>4
    <3> QED
      BY <1>2, <1>6, <1>7, <3>1 DEF Human
  <2>2. S \in SUBSET (1 .. m) /\ T \in SUBSET (1 .. n)
    BY <1>2, <1>6 DEF Human
  <2>3. IsFiniteSet(S) /\ IsFiniteSet(T)
    <3>1. 1 \in Int /\ m \in Int /\ n \in Int
      OBVIOUS
    <3>2. IsFiniteSet(1 .. m) /\ IsFiniteSet(1 .. n)
      BY ONLY <3>1, FS_Interval
    <3> HIDE DEF S, T
    <3> QED
      BY <2>2, <3>2, FS_Subset
  <2>4. f \in Bijection(S, T)
    <3>1. f \in [S -> T]
      BY <2>1, <2>2
    <3>2. ASSUME NEW x \in S, NEW y \in S, f[x] = f[y] PROVE x = y
      <4>1. x \in Nat /\ y \in Nat /\ i \in Nat /\ i + x - 1 = i + y - 1
        BY <1>2, <2>2, <3>2
      <4> QED
        BY <4>1
    <3>3. ASSUME NEW x \in T PROVE \E j \in S : f[j] = x
      <4>1. PICK j : j = x - i + 1
        OBVIOUS
      <4>2. x \in 1 .. n /\ x >= i
        BY <2>2
      <4>3. j \in 1 .. m /\ i + j - 1 = x
        BY <1>2, <1>3, <4>1, <4>2
      <4> QED
        BY <2>1, <4>3
    <3> QED
      BY <3>1, <3>2, <3>3 DEF Bijection, Injection, Surjection, IsInjective
  <2>5. Cardinality(S) = Cardinality(T)
    <3> HIDE DEF S, T, f
    <3> QED
      BY <2>3, <2>4, FS_Bijection DEF ExistsBijection
  <2> QED
    BY <2>5
<1> QED
  BY <1>8, <1>9, <1>10

\* The nodes between the guardrail and the answer.
Listening == {"guardrail_in", "load_progress", "load_memories", "plan", "extract_memory"}

\* A message of the turn has calls that name the document.
IsNamed(messages, turn, d) ==
  \E i \in 1 .. Len(messages) :
    messages[i].turn = turn /\ DocumentIdFromToolCalls(messages[i].calls) = d

\* Up to the answer there is the reader's message with notes behind it, and a
\* document is active only when a call of the turn named it.
JudgeInv ==
  /\ TalkInv
  /\ talk.node \in Listening => \E k : MessageAt(talk.messages, talk.turn, k)
  /\ talk.node \in Listening \cup {"generate", "tools", "guardrail_out"} =>
       talk.active = Unset \/ IsNamed(talk.messages, talk.turn, talk.active)
  /\ talk.node = "tools" => Last(talk.messages).turn = talk.turn

\* A named document stays named while messages are added.
LEMMA StaysNamed ==
  ASSUME NEW messages \in Seq(Messages), NEW longer \in Seq(Messages), NEW turn, NEW d,
         Len(messages) <= Len(longer),
         \A i \in 1 .. Len(messages) : longer[i] = messages[i],
         IsNamed(messages, turn, d)
  PROVE  IsNamed(longer, turn, d)
BY DEF IsNamed

\* A note stays behind the reader's message.
LEMMA NoteBehind ==
  ASSUME NEW messages \in Seq(Messages), NEW m \in Messages, NEW turn, NEW k,
         m.role = "note", m.turn = turn, MessageAt(messages, turn, k)
  PROVE  MessageAt(Append(messages, m), turn, k)
<1>0. PICK longer, n : longer = Append(messages, m) /\ n = Len(messages)
  OBVIOUS
<1>1. /\ longer = Append(messages, m) /\ n = Len(messages) /\ Len(longer) = n + 1 /\ n \in Nat
      /\ longer[n + 1] = m /\ \A i \in 1 .. n : longer[i] = messages[i]
  BY <1>0
<1>2. \A i \in 1 .. n + 1 : i \in 1 .. n \/ i = n + 1
  BY <1>1
<1>3. k \in 1 .. n /\ k < n + 1
  BY <1>1 DEF MessageAt
<1>4. k \in 1 .. n + 1 /\ ~(n + 1 < k)
  BY <1>1, <1>3
<1> QED
  BY <1>1, <1>2, <1>3, <1>4 DEF MessageAt

\* Messages added by a node that speaks for the turn.
LEMMA AddListens ==
  ASSUME JudgeInv, TalkInv', NEW m \in Messages, NEW node, Add(m, node), m.turn = talk.turn,
         talk.node \in Listening \cup {"generate"},
         node \in Listening => talk.node \in Listening /\ m.role = "note",
         node # "normalize_input"
  PROVE  JudgeInv'
<1>1. /\ talk'.node = node /\ talk'.turn = talk.turn /\ talk'.active = talk.active
      /\ talk'.messages = Append(talk.messages, m)
  BY DEF JudgeInv, TalkInv, TalkTyped, NewTalk, Add
<1>2. PICK before, after : before = talk.messages /\ after = talk'.messages
  OBVIOUS
<1>3. /\ before \in Seq(Messages) /\ after = Append(before, m) /\ after \in Seq(Messages)
      /\ Len(before) <= Len(after) /\ \A i \in 1 .. Len(before) : after[i] = before[i]
      /\ Last(after) = m
  BY <1>1, <1>2 DEF JudgeInv, TalkInv, TalkTyped, Last
<1>4. node \in Listening => \E k : MessageAt(after, talk.turn, k)
  BY <1>2, <1>3, NoteBehind DEF JudgeInv
<1>5. talk.active = Unset \/ IsNamed(after, talk.turn, talk.active)
  BY <1>2, <1>3, StaysNamed DEF JudgeInv
<1> QED
  BY <1>1, <1>2, <1>3, <1>4, <1>5 DEF JudgeInv

\* A node that leaves the messages alone.
LEMMA MoveListens ==
  ASSUME JudgeInv, TalkInv', NEW node, talk' = [talk EXCEPT !.node = node],
         node \in Listening => talk.node \in Listening,
         node \in {"generate", "guardrail_out"} => talk.node \in Listening,
         node \notin {"tools", "normalize_input"}
  PROVE  JudgeInv'
<1>1. /\ talk'.node = node /\ talk'.turn = talk.turn /\ talk'.active = talk.active
      /\ talk'.messages = talk.messages
  BY DEF JudgeInv, TalkInv, TalkTyped, NewTalk
<1> QED
  BY <1>1 DEF JudgeInv, Listening

\* The message is redacted in place, the last of the history then.
LEMMA NormalizeInputListens ==
  ASSUME JudgeInv, TalkInv', NormalizeInput PROVE JudgeInv'
<1> DEFINE before == talk.messages
           n == Len(before)
           text == ScreenInput(CombineInputText(before[n].text, talk.media))
           m == [before[n] EXCEPT !.text = text]
           after == [before EXCEPT ![n] = m]
<1>1. /\ before \in Seq(Messages) /\ n \in 1 .. n /\ n \in Nat /\ before[n] \in Messages
      /\ before[n].role = "human" /\ before[n].turn = talk.turn
      /\ before[n].text # <<>> \/ talk.media # <<>>
      /\ \A i \in 1 .. n - 1 : before[i].turn < talk.turn
  BY DEF NormalizeInput, JudgeInv, TalkInv, TalkTyped, MessageArrived, Last
<1>2. talk.media \in Seq(Seq(Nat)) /\ before[n].text \in Seq(Nat)
  BY <1>1 DEF JudgeInv, TalkInv, TalkTyped, Messages
<1>3. text \in Seq(Nat) /\ text # <<>>
  BY <1>1, <1>2, CombinedText
<1>4. /\ talk'.node = "guardrail_in" /\ talk'.turn = talk.turn /\ talk'.messages = after
      /\ talk'.active = Unset
  BY DEF NormalizeInput, JudgeInv, TalkInv, TalkTyped, NewTalk
<1> HIDE DEF text
<1>5. /\ m \in Messages /\ m.text = text /\ m.role = "human" /\ m.turn = talk.turn
  <2> HIDE DEF before
  <2>1. PICK r : r = m
    OBVIOUS
  <2> QED
    BY <1>1, <1>3, <2>1, MessageRewritten
<1> HIDE DEF m
<1>6. /\ Len(after) = n /\ after[n] = m
      /\ \A i \in 1 .. n : i # n => after[i] = before[i] /\ i \in 1 .. n - 1
  BY <1>1, <1>5
<1> HIDE DEF after
<1>7. MessageAt(after, talk.turn, n)
  <2> HIDE DEF before
  <2>1. \A i \in 1 .. n : i < n => i # n
    BY <1>1
  <2>2. \A i \in 1 .. n : ~(n < i)
    BY <1>1
  <2> HIDE DEF n
  <2> QED
    BY <1>1, <1>3, <1>5, <1>6, <2>1, <2>2 DEF MessageAt
<1> QED
  BY <1>4, <1>7 DEF JudgeInv, Listening

\* The answers of a batch follow the calls, whose document becomes the active one.
LEMMA RunToolsListens ==
  ASSUME JudgeInv, TalkInv', RunTools PROVE JudgeInv'
<1> DEFINE before == talk.messages
           calls == Last(before).calls
           results == [i \in DOMAIN calls |-> Message("tool", <<Label>>, <<>>)]
<1>1. /\ talk'.node = "generate" /\ talk'.turn = talk.turn /\ talk'.messages = before \o results
      /\ talk'.active = DocumentIdFromToolCalls(calls)
  BY DEF RunTools, JudgeInv, TalkInv, TalkTyped, NewTalk
<1>2. before \in Seq(Messages) /\ Len(before) \in 1 .. Len(before)
  BY DEF RunTools, JudgeInv, TalkInv, TalkTyped
<1>3. Last(before) = before[Len(before)] /\ before[Len(before)].turn = talk.turn
      /\ before[Len(before)] \in Messages
  BY <1>2 DEF RunTools, JudgeInv, Last
<1>4. calls \in Seq(Callable)
  BY <1>3 DEF Messages
<1>5. PICK after : after = before \o results
  OBVIOUS
<1>6. results \in Seq({Message("tool", <<Label>>, <<>>)})
  <2>1. Len(calls) \in Nat /\ DOMAIN calls = 1 .. Len(calls)
    <3> HIDE DEF calls
    <3> QED
      BY <1>4
  <2>2. PICK m : m = Message("tool", <<Label>>, <<>>)
    OBVIOUS
  <2>3. results \in [1 .. Len(calls) -> {m}]
    BY <2>1, <2>2
  <2> HIDE DEF results, calls
  <2> QED
    BY <2>1, <2>2, <2>3, FunctionIsSeq
<1>7. Len(before) \in 1 .. Len(after) /\ after[Len(before)] = before[Len(before)]
  <2> HIDE DEF results, before
  <2> QED
    BY <1>2, <1>5, <1>6
<1>8. IsNamed(after, talk.turn, DocumentIdFromToolCalls(calls))
  <2> HIDE DEF before, results
  <2> QED
    BY <1>3, <1>7 DEF IsNamed
<1> QED
  BY <1>1, <1>5, <1>8 DEF JudgeInv, Listening

\* Every node keeps it.
LEMMA TalkStepListens ==
  ASSUME JudgeInv, TalkStep PROVE JudgeInv'
<1>0. TalkInv /\ TalkInv' /\ TalkTyped
  BY TalkStepKeeps DEF JudgeInv, TalkInv
<1>1. CASE Say
  <2>1. talk'.node = "normalize_input"
    BY <1>0, <1>1 DEF Say, TalkTyped, NewTalk
  <2> QED
    BY <1>0, <2>1 DEF JudgeInv, Listening
<1>2. CASE GuardrailIn
  <2>1. PICK node \in {"load_progress", "end"} : talk' = [talk EXCEPT !.node = node]
    BY <1>2 DEF GuardrailIn
  <2>2. talk.node \in Listening
    BY <1>2 DEF GuardrailIn, Listening
  <2> QED
    BY <1>0, <2>1, <2>2, MoveListens
<1>3. ASSUME NEW node, Add(Message("note", <<Label>>, <<>>), node), talk.node \in Listening,
             node \in Listening \cup {"generate"}
      PROVE  JudgeInv'
  <2>1. PICK m : m = Message("note", <<Label>>, <<>>)
    OBVIOUS
  <2>2. m \in Messages /\ m.turn = talk.turn /\ m.role = "note"
    BY <1>0, <2>1, LabelHoldsNothing DEF Message, Messages, TalkTyped, Roles
  <2>3. node # "normalize_input"
    BY <1>3 DEF Listening
  <2> QED
    BY <1>0, <1>3, <2>1, <2>2, <2>3, AddListens
<1>4. CASE LoadProgress \/ LoadMemories
  BY <1>3, <1>4 DEF LoadProgress, LoadMemories, Listening
<1>5. CASE Plan
  BY <1>0, <1>5, MoveListens DEF Plan, Listening
<1>6. CASE ExtractMemory
  <2>1. talk.node \in Listening /\ "generate" \in Listening \cup {"generate"}
    BY <1>6 DEF ExtractMemory, Listening
  <2>2. CASE talk' = [talk EXCEPT !.node = "generate"]
    BY <1>0, <2>1, <2>2, MoveListens DEF Listening
  <2> QED
    BY <1>3, <1>6, <2>1, <2>2 DEF ExtractMemory
<1>7. CASE Generate
  <2>0. talk.node \in Listening \cup {"generate"} /\ "ai" \in Roles
    BY <1>7 DEF Generate, Roles
  <2>1. ASSUME NEW calls \in Proposals, NEW text \in {<<>>, <<Label>>},
               Add(Message("ai", text, calls), "tools")
        PROVE  JudgeInv'
    <3>1. PICK m : m = Message("ai", text, calls)
      OBVIOUS
    <3>2. text \in Seq(Nat) /\ calls \in Seq(Callable)
      BY LabelHoldsNothing, TalkAssumption
    <3>3. m \in Messages /\ m.turn = talk.turn
      BY <1>0, <2>0, <3>1, <3>2, MessageTyped
    <3> QED
      BY <1>0, <2>0, <2>1, <3>1, <3>3, AddListens DEF Listening
  <2>2. ASSUME Add(Message("ai", <<Label>>, <<>>), "guardrail_out") PROVE JudgeInv'
    <3>1. PICK m : m = Message("ai", <<Label>>, <<>>)
      OBVIOUS
    <3>2. m \in Messages /\ m.turn = talk.turn
      BY <1>0, <2>0, <3>1, LabelHoldsNothing DEF Message, Messages, TalkTyped
    <3> QED
      BY <1>0, <2>0, <2>2, <3>1, <3>2, AddListens DEF Listening
  <2> QED
    BY <1>7, <2>1, <2>2 DEF Generate
<1>8. CASE GenerateRejected \/ BreakOff
  BY <1>0, <1>8, MoveListens DEF GenerateRejected, BreakOff, Listening
<1>9. CASE GuardrailOut \/ Compact
  <2>1. talk'.node \in {"compact", "end"}
    BY <1>0, <1>9 DEF GuardrailOut, Compact, TalkTyped, NewTalk
  <2> QED
    BY <1>0, <2>1 DEF JudgeInv, Listening
<1> QED
  BY <1>0, <1>1, <1>2, <1>4, <1>5, <1>6, <1>7, <1>8, <1>9, NormalizeInputListens,
     RunToolsListens DEF TalkStep

\* With it, the judges see the talk.
LEMMA JudgesSee == JudgeInv => JudgesSeeTheTalk
<1> SUFFICES ASSUME JudgeInv PROVE JudgesSeeTheTalk
  OBVIOUS
<1>1. PICK s, turn : s = talk.messages /\ turn = talk.turn
  OBVIOUS
<1>2. s \in Seq(Messages) /\ turn \in Nat /\ DOMAIN s = 1 .. Len(s)
  BY <1>1 DEF JudgeInv, TalkInv, TalkTyped
<1>3. PICK seen, lines, before :
        /\ seen = RecentChatContext(s) /\ before = Earlier(s, turn)
        /\ lines = WithoutLast(WithoutLast(Filter(s, GuardrailHistoryLine), "ai"), "human")
  OBVIOUS
<1>4. ASSUME talk.node \in Listening
      PROVE  /\ IsSuffix(seen, before)
             /\ \/ seen = before
                \/ seen[1].role = "human" /\ Cardinality(Human(seen)) = HistoryTurns
  <2>1. PICK k : MessageAt(s, turn, k)
    BY <1>1, <1>4 DEF JudgeInv
  <2>2. lines = before
    BY <1>2, <1>3, <2>1, LinesAreEarlier
  <2>3. lines \in Seq(Messages)
    <3> DEFINE B == {i \in DOMAIN s : s[i].turn < turn /\ s[i].text # <<>>
                                      /\ s[i].role \notin {"tool", "note"}}
    <3>1. before = Keep(s, B) /\ B \in SUBSET (1 .. Len(s))
      BY <1>2, <1>3 DEF Earlier, Filter
    <3> HIDE DEF B
    <3> QED
      BY <1>2, <2>2, <3>1, KeepPicks
  <2>4. PICK i : i = CHOOSE x \in Human(lines) :
                       Cardinality({j \in Human(lines) : j >= x}) = HistoryTurns
    OBVIOUS
  <2>5. seen = IF Cardinality(Human(lines)) < HistoryTurns THEN lines
               ELSE SubSeq(lines, i, Len(lines))
    BY <1>3, <2>4 DEF RecentChatContext, Human
  <2>6. CASE Cardinality(Human(lines)) < HistoryTurns
    <3>1. IsSuffix(lines, lines)
      BY DEF IsSuffix, IsPrefix
    <3> QED
      BY <2>2, <2>5, <2>6, <3>1
  <2>7. CASE ~(Cardinality(Human(lines)) < HistoryTurns)
    <3>1. Human(lines) \in SUBSET Nat /\ IsFiniteSet(Human(lines))
      <4>1. Human(lines) \in SUBSET (1 .. Len(lines)) /\ 1 \in Int /\ Len(lines) \in Int
        BY <2>3 DEF Human
      <4>2. IsFiniteSet(1 .. Len(lines))
        BY ONLY <4>1, FS_Interval
      <4> QED
        BY <4>1, <4>2, FS_Subset
    <3>2. HistoryTurns \in Nat \ {0} /\ Cardinality(Human(lines)) \in Nat
      BY <3>1, TalkAssumption, FS_CardinalityType
    <3>3. HistoryTurns <= Cardinality(Human(lines))
      BY <2>7, <3>2
    <3>4. \E x \in Human(lines) : Cardinality({j \in Human(lines) : j >= x}) = HistoryTurns
      BY <3>1, <3>2, <3>3, FromTheLast
    <3>5. i \in Human(lines) /\ Cardinality({j \in Human(lines) : j >= i}) = HistoryTurns
      BY <2>4, <3>4
    <3>6. seen = SubSeq(lines, i, Len(lines))
      BY <2>5, <2>7
    <3> QED
      BY <2>2, <2>3, <3>5, <3>6, LastLines
  <2> QED
    BY <2>6, <2>7
<1>5. ASSUME talk.node \in {"generate", "guardrail_out"}, talk.active # Unset
      PROVE  \E i \in DOMAIN s : /\ s[i].turn = turn
                                 /\ DocumentIdFromToolCalls(s[i].calls) = talk.active
  BY <1>1, <1>2, <1>5 DEF JudgeInv, IsNamed
<1>6. /\ talk.node \in {"guardrail_in", "plan", "extract_memory"} => talk.node \in Listening
      /\ Human(seen) = {i \in DOMAIN seen : seen[i].role = "human"}
      /\ before = Filter(s, LAMBDA m : /\ m.turn < turn /\ m.text # <<>>
                                       /\ m.role \notin {"tool", "note"})
  BY <1>3 DEF Listening, Human, Earlier
<1> QED
  BY <1>1, <1>3, <1>4, <1>5, <1>6 DEF JudgesSeeTheTalk

\* The guardrail, the planner and the memory classifier see the talk before the
\* reader's message, all of it or its last turns, and the active document is one the
\* turn's own calls named, however turns break off and for any inputs
\* (graph.py:377-444, 679-704).
THEOREM JudgesAlwaysSee == Spec => []JudgesSeeTheTalk
<1>1. Init => JudgeInv
  <2>1. SUFFICES ASSUME Init PROVE JudgeInv
    OBVIOUS
  <2>2. talk = NewTalk
    BY <2>1 DEF Init
  <2> QED
    BY <2>2 DEF NewTalk, JudgeInv, TalkInv, TalkTyped, MessageArrived, AnswerScreened, TalkIsKept,
      Listening
<1>2. JudgeInv /\ [Next]_vars => JudgeInv'
  <2>1. SUFFICES ASSUME JudgeInv, [Next]_vars PROVE JudgeInv'
    OBVIOUS
  <2>2. CASE UNCHANGED talk
    BY <2>1, <2>2 DEF JudgeInv, TalkInv, TalkTyped, MessageArrived, AnswerScreened, TalkIsKept
  <2>3. CASE Talk
    BY <2>1, <2>3, TalkStepListens DEF Talk
  <2>4. UNCHANGED talk \/ Talk
    BY <2>1 DEF Next, vars, CallProgress, CallRetrieve, CallSummarize, CallRecall, CallRecommend,
      CallWebSearch, Calls, ReadOn, ResumeSummarize, ResumeApproval, Chunk, Stream, Report,
      Score, RecallNote, Computes
  <2> QED
    BY <2>2, <2>3, <2>4
<1> QED
  BY <1>1, <1>2, JudgesSee, PTL DEF Spec

-----------------------------------------------------------------------------
(* What the computations put together.                                     *)

\* What comes out of them.
Computed == {"chunks", "frames", "report", "scores", "notes"}

\* A tool computes none of it.
LEMMA ToolsComputeNothing ==
  ASSUME CallProgress \/ CallRetrieve \/ CallSummarize \/ CallRecall \/ CallRecommend
           \/ CallWebSearch \/ ResumeSummarize \/ ResumeApproval
  PROVE  outcome'.kind \notin Computed
<1>1. \A ctx, value, first, last, answer :
        Summarize(ctx, value, first, last, answer).kind \notin Computed
  <2> TAKE ctx, value, first, last, answer
  <2>1. NotAnId.kind \notin Computed
    BY DEF NotAnId, Computed
  <2>2. ASSUME NEW d, NEW row, NEW from, NEW to
        PROVE  Recap(ctx, d, row, from, to).kind \notin Computed
    BY DEF Recap, Computed
  <2> QED
    BY <2>1, <2>2 DEF Summarize, Computed
<1>2. CASE CallProgress
  <2>1. \E ctx, v : outcome' = GetReadingProgress(ctx, v)
    BY <1>2 DEF CallProgress, Calls
  <2> QED
    BY <2>1, KindsOfTools DEF Computed
<1>3. CASE CallRetrieve
  <2>1. \E ctx, score, value, unread, limit :
          outcome' = RetrieveChunks(ctx, score, value, unread, limit)
    BY <1>3 DEF CallRetrieve, Calls
  <2> QED
    BY <2>1, KindsOfTools DEF Computed
<1>4. CASE CallSummarize \/ ResumeSummarize
  <2>1. \E ctx, value, first, last, answer : outcome' = Summarize(ctx, value, first, last, answer)
    <3>1. CASE CallSummarize
      <4>1. PICK v, first, last, args : Calls(args, Summarize(Context, v, first, last, None))
        BY <3>1 DEF CallSummarize
      <4>2. outcome' = Summarize(Context, v, first, last, None)
        BY <4>1 DEF Calls
      <4> QED
        BY <4>2
    <3>2. CASE ResumeSummarize
      BY <3>2 DEF ResumeSummarize
    <3> QED
      BY <1>4, <3>1, <3>2
  <2> QED
    BY <1>1, <2>1
<1>5. CASE CallRecall
  <2>1. \E ctx, q : Calls(q, QueryLongTermMemory(ctx, q))
    BY <1>5 DEF CallRecall
  <2> QED
    BY <2>1, KindsOfTools DEF Calls, Computed
<1>6. CASE CallRecommend \/ CallWebSearch \/ ResumeApproval
  <2>1. \/ \E ctx, web, query, limit, answer : outcome' = Recommend(ctx, web, query, limit, answer)
        \/ \E query, answer : outcome' = WebSearch(query, answer)
    <3>1. ASSUME CallRecommend
          PROVE  \E ctx, web, query, limit, answer : outcome' = Recommend(ctx, web, query, limit, answer)
      BY <3>1 DEF CallRecommend, Calls
    <3>2. ASSUME CallWebSearch PROVE \E query, answer : outcome' = WebSearch(query, answer)
      BY <3>2 DEF CallWebSearch, Calls
    <3> QED
      BY <1>6, <3>1, <3>2 DEF ResumeApproval
  <2> QED
    BY <2>1, KindsOfTools DEF Computed
<1> QED
  BY <1>2, <1>3, <1>4, <1>5, <1>6

\* The pause of a tool is none of it.
LEMMA PauseComputesNothing ==
  ASSUME ReadOn PROVE outcome'.kind \notin Computed
BY DEF ReadOn, Paused, Computed

\* Nothing else has pieces to put together,
LEMMA NoPieces ==
  ASSUME outcome'.kind \notin {"chunks", "frames"} PROVE PiecesMakeTheWhole'
BY DEF PiecesMakeTheWhole

\* a document is put together from its chunks,
LEMMA ChunkMakesTheWhole ==
  ASSUME Chunk PROVE PiecesMakeTheWhole'
<1>1. PICK file \in Files, size \in 1 .. Size, overlap \in 0 .. Overlap, found \in {Unknown, "es"} :
        LET pages == ParsePdf(file)
        IN  Computes([pages |-> pages, overlap |-> overlap],
                     IF pages = ParseError THEN [kind |-> "failed"]
                     ELSE [kind |-> "chunks",
                           language |-> DetectLanguage(FullText(pages), found, "en"),
                           chunks |-> ChunkDocument(pages, size, overlap)])
  BY DEF Chunk
<1>2. PICK pages, chunks : pages = ParsePdf(file) /\ chunks = ChunkDocument(pages, size, overlap)
  OBVIOUS
<1>3. CASE pages = ParseError
  BY <1>1, <1>2, <1>3, NoPieces DEF Computes
<1>4. CASE pages # ParseError
  <2>1. /\ call'.pages = pages /\ call'.overlap = overlap
        /\ outcome'.kind = "chunks" /\ outcome'.chunks = chunks
    BY <1>1, <1>2, <1>4 DEF Computes
  <2>2. pages \in Seq(Seq(Nat))
    BY <1>2, <1>4, FilesAssumption DEF ParsePdf
  <2>3. size \in Nat /\ overlap \in Nat
    BY SizesAssumption
  <2>4. ASSUME chunks # Refused
        PROVE  ChunksRebuildText(pages, chunks, overlap) /\ ChunksKnowTheirPages(pages, chunks)
    <3>1. ValidSizes(size, overlap)
      BY <1>2, <2>4 DEF ChunkDocument
    <3> QED
      BY <1>2, <2>2, <2>3, <3>1, ChunksMakeTheText, ChunksKnowPages
  <2> QED
    BY <2>1, <2>4 DEF PiecesMakeTheWhole
<1> QED
  BY <1>3, <1>4

\* and a stream from what the network delivers.
LEMMA StreamMakesTheWhole ==
  ASSUME Stream PROVE PiecesMakeTheWhole'
<1>1. PICK cut \in Cuts : /\ call' = cut
                          /\ outcome' = [kind |-> "frames", read |-> ConsumeSse(cut.pieces)]
  BY DEF Stream, Computes
<1>2. FramesArriveWhole(cut.frames, cut.tail, cut.pieces)
  BY CutsAssumption, FramesAlwaysArrive
<1> QED
  BY <1>1, <1>2 DEF PiecesMakeTheWhole

\* What is cut into pieces is put together again: a document from its chunks, the events of
\* the answer stream from what the network delivers (chunking.py:74-121, client.ts:337-353).
THEOREM PiecesAlwaysWhole == Spec => []PiecesMakeTheWhole
<1>1. Init => PiecesMakeTheWhole
  BY DEF Init, Idle, PiecesMakeTheWhole
<1>2. PiecesMakeTheWhole /\ [Next]_vars => PiecesMakeTheWhole'
  <2> SUFFICES ASSUME PiecesMakeTheWhole, [Next]_vars PROVE PiecesMakeTheWhole'
    OBVIOUS
  <2>1. CASE Chunk \/ Stream
    BY <2>1, ChunkMakesTheWhole, StreamMakesTheWhole
  <2>2. CASE Report
    <3>1. outcome'.kind = "report"
      <4>1. \E args, usage, analytics :
              Computes(args, [kind |-> "report", usage |-> usage, analytics |-> analytics])
        BY <2>2, Zenon DEF Report
      <4> QED
        BY <4>1 DEF Computes
    <3> QED
      BY <3>1, NoPieces
  <2>3. CASE Score \/ RecallNote
    <3>1. CASE Score
      BY <3>1, NoPieces DEF Score, Computes
    <3>2. CASE RecallNote
      BY <3>2, NoPieces DEF RecallNote, Computes
    <3> QED
      BY <2>3, <3>1, <3>2
  <2>4. CASE Talk \/ UNCHANGED vars
    <3>1. call' = call /\ outcome' = outcome
      BY <2>4 DEF Talk, vars, question
    <3> QED
      BY <3>1 DEF PiecesMakeTheWhole
  <2>5. CASE ~ (Chunk \/ Stream \/ Report \/ Score \/ RecallNote \/ Talk \/ UNCHANGED vars)
    BY <2>5, ToolsComputeNothing, PauseComputesNothing, NoPieces DEF Next, Computed
  <2> QED
    BY <2>1, <2>2, <2>3, <2>4, <2>5
<1> QED
  BY <1>1, <1>2, PTL DEF Spec

-----------------------------------------------------------------------------
(* What the figures come to.                                               *)

\* Nothing else has figures,
LEMMA NoFigures ==
  ASSUME outcome'.kind \notin {"report", "scores", "notes"} PROVE FiguresAddUp'
BY DEF FiguresAddUp

\* the dashboards count what happened,
LEMMA TrailsAddUp ==
  ASSUME NEW t \in Trails, NEW usage, usage = ToolEvents(TokenEvents(t.calls), t.tools)
  PROVE  /\ AnalyticsAreSound(t.events, t.today, t.window, Analytics(t.events, t.today, t.window))
         /\ UsageIsSound(usage, t.today, t.window, Usage(usage, t.today, t.window))
<1>1. PICK today \in Int, window \in Int : today = t.today /\ window = t.window
  BY TrailsAssumption
<1>2. PICK events : events = t.events
  OBVIOUS
<1>3. events \in Seq(ToSet(events)) /\ \A i \in DOMAIN events : IsReading(events[i])
  <2>1. events \in Seq(ToSet(events))
    BY <1>2, TrailsAssumption
  <2>2. \A i \in DOMAIN events : /\ {events[i].from_page, events[i].to_page} \subseteq Integral
                                 /\ events[i].day \in Int
    BY <1>2, TrailsAssumption
  <2> QED
    BY <2>1, <2>2 DEF IsReading, Integral
<1>4. AnalyticsAreSound(events, today, window, Analytics(events, today, window))
  <2>1. Unset \notin Int
    BY UnsetAssumption
  <2> QED
    BY <1>3, <2>1, AnalyticsAddUp
<1>5. PICK calls, tools : calls = t.calls /\ tools = t.tools
  OBVIOUS
<1>6. PICK n \in Nat : TellTokens(calls, n)
  <2>1. calls \in Seq(ToSet(calls))
    BY <1>5, TrailsAssumption
  <2>2. PICK n \in Nat : n = Len(calls) /\ DOMAIN calls = 1 .. n
    BY <2>1, LenProperties
  <2>3. \A i \in DOMAIN calls : /\ {calls[i].prompt, calls[i].completion} \subseteq Nat
                                /\ calls[i].day \in Int
    BY <1>5, TrailsAssumption
  <2> QED
    BY <2>2, <2>3 DEF TellTokens
<1>7. PICK m \in Nat : DOMAIN tools = 1 .. m /\ \A i \in 1 .. m : tools[i].day \in Int
  <2>1. tools \in Seq(ToSet(tools))
    BY <1>5, TrailsAssumption
  <2>2. PICK m \in Nat : m = Len(tools) /\ DOMAIN tools = 1 .. m
    BY <2>1, LenProperties
  <2>3. \A i \in DOMAIN tools : tools[i].day \in Int
    BY <1>5, TrailsAssumption
  <2> QED
    BY <2>2, <2>3
<1>8. PICK X : usage \in Seq(X) /\ \A e \in X : IsUsage(e)
  BY <1>5, <1>6, <1>7, TrailIsUsage
<1>9. \A i \in DOMAIN usage : IsUsage(usage[i])
  <2>1. DOMAIN usage = 1 .. Len(usage)
    BY <1>8, LenProperties
  <2> QED
    BY <1>8, <2>1, ElementOfSeq
<1>10. UsageIsSound(usage, today, window, Usage(usage, today, window))
  BY <1>8, <1>9, UsageAddsUp
<1> QED
  BY <1>1, <1>2, <1>4, <1>10

\* of reading and of use,
LEMMA ReportAddsUp ==
  ASSUME Report PROVE FiguresAddUp'
<1>0. PICK t \in Trails : \E usage :
        /\ usage = ToolEvents(TokenEvents(t.calls), t.tools)
        /\ Computes([trail |-> t, usage |-> usage],
                    [kind |-> "report", usage |-> Usage(usage, t.today, t.window),
                     analytics |-> Analytics(t.events, t.today, t.window)])
  BY DEF Report, ToolEvents, TokenEvents
<1>1. PICK usage :
        /\ usage = ToolEvents(TokenEvents(t.calls), t.tools)
        /\ Computes([trail |-> t, usage |-> usage],
                    [kind |-> "report", usage |-> Usage(usage, t.today, t.window),
                     analytics |-> Analytics(t.events, t.today, t.window)])
  BY <1>0
<1>2. /\ call'.trail = t /\ call'.usage = usage /\ outcome'.kind = "report"
      /\ outcome'.usage = Usage(usage, t.today, t.window)
      /\ outcome'.analytics = Analytics(t.events, t.today, t.window)
  BY <1>1 DEF Computes
<1>3. /\ AnalyticsAreSound(t.events, t.today, t.window, outcome'.analytics)
      /\ UsageIsSound(usage, t.today, t.window, outcome'.usage)
  BY <1>1, <1>2, TrailsAddUp
<1> QED
  BY <1>2, <1>3 DEF FiguresAddUp

\* the scores of a run agree,
LEMMA ScoreAddsUp ==
  ASSUME Score PROVE FiguresAddUp'
<1>1. PICK run \in Cases :
        Computes([cases |-> run],
                 [kind |-> "scores", summary |->
                    SummarizeCases([i \in DOMAIN run |->
                      [hit |-> HitRate(run[i].retrieved, run[i].expected), judged |-> run[i].judged]])])
  BY DEF Score
<1>2. PICK cases : cases = [i \in DOMAIN run |->
                      [hit |-> HitRate(run[i].retrieved, run[i].expected), judged |-> run[i].judged]]
  OBVIOUS
<1>3. /\ call'.cases = run /\ outcome'.kind = "scores"
      /\ outcome'.summary = SummarizeCases(cases)
  BY <1>1, <1>2 DEF Computes
<1>4. ASSUME NEW i \in DOMAIN run
      PROVE  /\ ScoresAgree(run[i].retrieved, run[i].expected)
             /\ HitRate(run[i].retrieved, run[i].expected) \in {0, 1}
  <2>1. run[i].retrieved \in Seq(ToSet(run[i].retrieved)) /\ IsFiniteSet(run[i].expected)
    BY CasesAssumption
  <2> QED
    BY <2>1, ScoresAlwaysAgree
<1>5. PICK n \in Nat : n = Len(run) /\ DOMAIN run = 1 .. n
  <2>1. run \in Seq(ToSet(run))
    BY CasesAssumption
  <2> QED
    BY <2>1, LenProperties
<1>6. \E X : cases \in Seq(X)
  <2>1. PICK X : X = {cases[i] : i \in 1 .. n}
    OBVIOUS
  <2>2. cases \in [1 .. n -> X]
    BY <1>2, <1>5, <2>1
  <2>3. cases \in Seq(X)
    BY <2>2, FunctionIsSeq
  <2> QED
    BY <2>3
<1>7. \A i \in DOMAIN cases : cases[i].hit \in {0, 1}
  BY <1>2, <1>4
<1>8. PICK rate : rate = SummarizeCases(cases).hit_rate
  OBVIOUS
<1>9. rate[1] <= rate[2]
  BY <1>6, <1>7, <1>8, HitsAreCases
<1> QED
  BY <1>3, <1>4, <1>8, <1>9 DEF FiguresAddUp

\* and the scratchpad recalls the best of its notes.
LEMMA RecallAddsUp ==
  ASSUME RecallNote PROVE FiguresAddUp'
<1>1. PICK pad \in Pads :
        /\ call' = pad
        /\ outcome' = [kind |-> "notes", notes |-> RecallNotes(pad.notes, pad.query, pad.limit)]
  BY DEF RecallNote, Computes
<1>2. RecallKeepsTheBest(pad.notes, pad.query, pad.limit,
                         RecallNotes(pad.notes, pad.query, pad.limit))
  <2>1. /\ pad.notes \in Seq(ToSet(pad.notes)) /\ pad.limit \in Nat
        /\ \A i \in DOMAIN pad.notes : IsFiniteSet(pad.query \cap pad.notes[i].words)
    BY PadsAssumption
  <2> QED
    BY <2>1, BestIsRecalled
<1> QED
  BY <1>1, <1>2 DEF FiguresAddUp

\* The figures of the dashboards and of an evaluation add up, and the scratchpad recalls the
\* best notes (analytics_service.py:76-145, scorers/retrieval.py, scratchpad_service.py:135-168).
THEOREM FiguresAlwaysAddUp == Spec => []FiguresAddUp
<1>1. Init => FiguresAddUp
  BY DEF Init, Idle, FiguresAddUp
<1>2. FiguresAddUp /\ [Next]_vars => FiguresAddUp'
  <2> SUFFICES ASSUME FiguresAddUp, [Next]_vars PROVE FiguresAddUp'
    OBVIOUS
  <2>1. CASE Report \/ Score \/ RecallNote
    BY <2>1, ReportAddsUp, ScoreAddsUp, RecallAddsUp
  <2>2. CASE Chunk
    <3>1. \E args, language, chunks :
            \/ Computes(args, [kind |-> "failed"])
            \/ Computes(args, [kind |-> "chunks", language |-> language, chunks |-> chunks])
      BY <2>2, Zenon DEF Chunk
    <3>2. outcome'.kind \in {"failed", "chunks"}
      BY <3>1 DEF Computes
    <3> QED
      BY <3>2, NoFigures
  <2>3. CASE Stream
    BY <2>3, NoFigures DEF Stream, Computes
  <2>4. CASE Talk \/ UNCHANGED vars
    <3>1. call' = call /\ outcome' = outcome
      BY <2>4 DEF Talk, vars, question
    <3> QED
      BY <3>1 DEF FiguresAddUp
  <2>5. CASE ~ (Chunk \/ Stream \/ Report \/ Score \/ RecallNote \/ Talk \/ UNCHANGED vars)
    BY <2>5, ToolsComputeNothing, PauseComputesNothing, NoFigures DEF Next, Computed
  <2> QED
    BY <2>1, <2>2, <2>3, <2>4, <2>5
<1> QED
  BY <1>1, <1>2, PTL DEF Spec

=============================================================================
