-------------------------- MODULE AgentLoop_proofs --------------------------
(***************************************************************************)
(* What the agent's loop keeps, for any number of tools, sessions, keys    *)
(* and commands: the conversation the model is shown is one it accepts,    *)
(* its file is up to date wherever the program may end, what was denied    *)
(* runs by known slips alone, and what was told to be remembered is.       *)
(*                                                                         *)
(* Four invariants, none of which needs another: of the conversation and   *)
(* its files, of the readers left behind, of the confirmation box, and of  *)
(* the files of the tools.                                                 *)
(***************************************************************************)
EXTENDS AgentLoop, SequenceTheorems, TLAPS

USE AgentAssumption DEF AgentAssumption

-----------------------------------------------------------------------------
(* Histories *)

\* A message has no more than two calls, and a result none.
LEMMA CountType == \A m \in Roles : Count(m) \in 0..2 /\ (m = "result" => Count(m) = 0)
BY DEF Count, Roles, Calls

\* Paired, with the number of results that are still to come.
PairedTodo(s, n) ==
  \A i \in 1..Len(s) :
    /\ s[i] = "result" => \E j \in 1..(i - 1) : j + Count(s[j]) >= i
    /\ \A k \in 1..Count(s[i]) :
         /\ i + k <= Len(s) => s[i + k] = "result"
         /\ i + k <= Len(s) + n

\* The message whose results they are.
Owing(s, n) == n > 0 => \E j \in 1..Len(s) : j + Count(s[j]) = Len(s) + n

\* No history begins with calls: /new keeps the first message alone.
Headed(s) == Len(s) > 0 => s[1] \notin Calls

History(s, n) == PairedTodo(s, n) /\ Owing(s, n) /\ Headed(s)

\* What Append does to a history.
LEMMA Appended ==
  ASSUME NEW s \in Seq(Roles), NEW m \in Roles
  PROVE  /\ Append(s, m) \in Seq(Roles) /\ Len(Append(s, m)) = Len(s) + 1 /\ Len(s) \in Nat
         /\ \A i \in 1..Len(s) : Append(s, m)[i] = s[i] /\ s[i] \in Roles
         /\ Append(s, m)[Len(s) + 1] = m
BY AppendProperties, LenProperties, ElementOfSeq

\* Whatever is said after a history with nothing owed keeps it paired; calls owe their results.
LEMMA PairedSay ==
  ASSUME NEW s \in Seq(Roles), NEW m \in Roles \ {"result"}, History(s, 0),
         s = <<>> => m \notin Calls
  PROVE  History(Append(s, m), Count(m))
<1> DEFINE t == Append(s, m)
           n == Len(s)
<1>1. /\ t \in Seq(Roles) /\ Len(t) = n + 1 /\ n \in Nat
      /\ \A i \in 1..n : t[i] = s[i] /\ s[i] \in Roles
      /\ t[n + 1] = m
  BY Appended
<1>2. \A i \in 1..n : Count(s[i]) \in 0..2
  BY <1>1, CountType
<1>3. Count(m) \in 0..2 /\ m # "result"
  BY CountType
<1> HIDE DEF t
<1>4. PairedTodo(t, Count(m))
  <2> SUFFICES ASSUME NEW i \in 1..n + 1
               PROVE  /\ t[i] = "result" => \E j \in 1..(i - 1) : j + Count(t[j]) >= i
                      /\ \A k \in 1..Count(t[i]) :
                           /\ i + k <= n + 1 => t[i + k] = "result"
                           /\ i + k <= n + 1 + Count(m)
    BY <1>1 DEF PairedTodo
  <2>1. CASE i = n + 1
    BY <1>1, <1>3, <2>1
  <2>2. CASE i \in 1..n
    <3>1. /\ s[i] = "result" => \E j \in 1..(i - 1) : j + Count(s[j]) >= i
          /\ \A k \in 1..Count(s[i]) : (i + k <= n => s[i + k] = "result") /\ i + k <= n + 0
      BY <2>2 DEF History, PairedTodo
    <3>2. t[i] = "result" => \E j \in 1..(i - 1) : j + Count(t[j]) >= i
      BY <1>1, <2>2, <3>1
    <3>3. \A k \in 1..Count(t[i]) : i + k \in 1..n /\ t[i + k] = "result"
      BY <1>1, <1>2, <2>2, <3>1
    <3> QED
      BY <1>1, <1>3, <3>2, <3>3
  <2> QED
    BY <1>1, <2>1, <2>2
<1>5. Owing(t, Count(m))
  BY <1>1, <1>3 DEF Owing
<1>6. Headed(t)
  <2>1. CASE n = 0
    <3>1. s = <<>>
      BY <2>1, EmptySeq
    <3> QED
      BY <1>1, <2>1, <3>1 DEF Headed
  <2>2. CASE n > 0
    BY <1>1, <2>2 DEF History, Headed
  <2> QED
    BY <1>1, <2>1, <2>2
<1> QED
  BY <1>4, <1>5, <1>6 DEF History, t

\* A result behind a history that owes some pays for one of them.
LEMMA PairedResult ==
  ASSUME NEW s \in Seq(Roles), NEW n \in Nat \ {0}, History(s, n)
  PROVE  History(Append(s, "result"), n - 1)
<1> DEFINE t == Append(s, "result")
           l == Len(s)
<1>1. /\ t \in Seq(Roles) /\ Len(t) = l + 1 /\ l \in Nat
      /\ \A i \in 1..l : t[i] = s[i] /\ s[i] \in Roles
      /\ t[l + 1] = "result"
  BY Appended DEF Roles
<1>2. \A i \in 1..l : Count(s[i]) \in 0..2
  BY <1>1, CountType
<1>3. Count("result") = 0
  BY DEF Count
<1>4. PICK j \in 1..l : j + Count(s[j]) = l + n
  BY DEF History, Owing
<1> HIDE DEF t
<1>5. PairedTodo(t, n - 1)
  <2> SUFFICES ASSUME NEW i \in 1..l + 1
               PROVE  /\ t[i] = "result" => \E h \in 1..(i - 1) : h + Count(t[h]) >= i
                      /\ \A k \in 1..Count(t[i]) :
                           /\ i + k <= l + 1 => t[i + k] = "result"
                           /\ i + k <= l + 1 + (n - 1)
    BY <1>1 DEF PairedTodo
  <2>1. CASE i = l + 1
    <3>1. j + Count(t[j]) >= i
      BY <1>1, <1>4, <2>1
    <3> QED
      BY <1>1, <1>3, <2>1, <3>1
  <2>2. CASE i \in 1..l
    <3>1. /\ s[i] = "result" => \E h \in 1..(i - 1) : h + Count(s[h]) >= i
          /\ \A k \in 1..Count(s[i]) : (i + k <= l => s[i + k] = "result") /\ i + k <= l + n
      BY <2>2 DEF History, PairedTodo
    <3>2. t[i] = "result" => \E h \in 1..(i - 1) : h + Count(t[h]) >= i
      BY <1>1, <2>2, <3>1
    <3>3. \A k \in 1..Count(t[i]) : (i + k <= l => t[i + k] = "result") /\ i + k <= l + n
      BY <1>1, <1>2, <2>2, <3>1
    <3>4. \A k \in 1..Count(t[i]) : i + k <= l + 1 => t[i + k] = "result"
      BY <1>1, <1>2, <2>2, <3>3
    <3> QED
      BY <1>1, <3>2, <3>3, <3>4
  <2> QED
    BY <1>1, <2>1, <2>2
<1>6. Owing(t, n - 1)
  BY <1>1, <1>4 DEF Owing
<1>7. Headed(t)
  BY <1>1, <1>4 DEF History, Headed
<1> QED
  BY <1>5, <1>6, <1>7 DEF History, t

\* The last message can be taken back, as the error path of the loop does, unless it is a result.
LEMMA PairedBack ==
  ASSUME NEW s \in Seq(Roles), History(s, 0), s[Len(s)] # "result"
  PROVE  SubSeq(s, 1, Len(s) - 1) \in Seq(Roles) /\ History(SubSeq(s, 1, Len(s) - 1), 0)
<1> DEFINE t == SubSeq(s, 1, Len(s) - 1)
           l == Len(s)
<1>1. l \in Nat /\ \A i \in 1..l : s[i] \in Roles /\ Count(s[i]) \in 0..2
  BY LenProperties, ElementOfSeq, CountType
<1>2. /\ t \in Seq(Roles) /\ Len(t) = (IF 1 <= l - 1 THEN l - 1 ELSE 0)
      /\ \A i \in 1..l - 1 : t[i] = s[i]
  <2>1. \A i \in 1..l - 1 : s[i] \in Roles
    BY <1>1
  <2>2. \A i \in 1..(l - 1) - 1 + 1 : SubSeq(s, 1, l - 1)[i] = s[1 + i - 1]
    BY <1>1, <2>1, SubSeqProperties
  <2>3. \A i \in 1..l - 1 : SubSeq(s, 1, l - 1)[i] = s[i]
    BY <1>1, <2>2
  <2>4. t \in Seq(Roles) /\ Len(t) = (IF 1 <= l - 1 THEN l - 1 - 1 + 1 ELSE 0)
    BY <1>1, <2>1, SubSeqProperties
  <2> QED
    BY <1>1, <2>3, <2>4
<1> HIDE DEF t
<1>3. PairedTodo(t, 0)
  <2> SUFFICES ASSUME NEW i \in 1..l - 1
               PROVE  /\ t[i] = "result" => \E j \in 1..(i - 1) : j + Count(t[j]) >= i
                      /\ \A k \in 1..Count(t[i]) :
                           /\ i + k <= l - 1 => t[i + k] = "result"
                           /\ i + k <= (l - 1) + 0
    BY <1>1, <1>2 DEF PairedTodo
  <2>1. /\ s[i] = "result" => \E j \in 1..(i - 1) : j + Count(s[j]) >= i
        /\ \A k \in 1..Count(s[i]) : (i + k <= l => s[i + k] = "result") /\ i + k <= l + 0
    BY <1>1 DEF History, PairedTodo
  <2>2. \A k \in 1..Count(s[i]) : i + k <= l - 1 /\ s[i + k] = "result"
    BY <1>1, <2>1
  <2>3. t[i] = s[i] /\ \A j \in 1..i - 1 : t[j] = s[j]
    BY <1>1, <1>2
  <2>4. t[i] = "result" => \E j \in 1..(i - 1) : j + Count(t[j]) >= i
    BY <2>1, <2>3
  <2>5. \A k \in 1..Count(t[i]) : i + k <= l - 1 /\ t[i + k] = "result"
    <3> SUFFICES ASSUME NEW k \in 1..Count(s[i])
                 PROVE  i + k <= l - 1 /\ t[i + k] = "result"
      BY <2>3
    <3>1. i + k \in 1..l - 1 /\ s[i + k] = "result"
      BY <1>1, <2>2
    <3> QED
      BY <1>2, <3>1
  <2>6. \A k \in 1..Count(t[i]) : i + k <= (l - 1) + 0
    BY <1>1, <2>3, <2>5
  <2> QED
    BY <2>4, <2>5, <2>6
<1>4. Owing(t, 0) /\ Headed(t)
  BY <1>1, <1>2 DEF Owing, Headed, History
<1> QED
  BY <1>2, <1>3, <1>4 DEF History, t

\* The empty history, and the one an import leaves, are paired.
LEMMA PairedShort ==
  /\ <<>> \in Seq(Roles) /\ History(<<>>, 0)
  /\ <<"system", "user", "answer">> \in Seq(Roles) /\ History(<<"system", "user", "answer">>, 0)
<1>1. History(<<>>, 0)
  BY DEF History, PairedTodo, Owing, Headed
<1>2. <<"system", "user", "answer">> \in Seq(Roles)
  BY DEF Roles
<1>3. History(<<"system", "user", "answer">>, 0)
  BY DEF History, PairedTodo, Owing, Headed, Count, Calls
<1> QED
  BY <1>1, <1>2, <1>3, EmptySeq

\* /new and /clear keep the first message, which stands alone.
LEMMA PairedFirst ==
  ASSUME NEW s \in Seq(Roles), s # <<>>
  PROVE  << s[1] >> \in Seq(Roles) /\ (History(s, 0) => History(<< s[1] >>, 0))
<1>1. Len(s) \in Nat \ {0} /\ s[1] \in Roles
  BY EmptySeq, LenProperties, ElementOfSeq
<1>2. << s[1] >> \in Seq(Roles)
  BY <1>1
<1>3. ASSUME History(s, 0) PROVE History(<< s[1] >>, 0)
  <2>1. s[1] \notin Calls /\ s[1] # "result"
    BY <1>1, <1>3 DEF History, Headed, PairedTodo
  <2>2. Count(s[1]) = 0
    BY <1>1, <2>1 DEF Count, Calls
  <2> QED
    BY <2>1, <2>2 DEF History, PairedTodo, Owing, Headed
<1> QED
  BY <1>2, <1>3

\* trimMessages returns no more than Keep messages, all of a history that fits, and its own
\* result unchanged.
LEMMA Trimmed ==
  ASSUME NEW s \in Seq(Roles)
  PROVE  /\ Trim(s) \in Seq(Roles) /\ Len(Trim(s)) <= Keep
         /\ Len(s) <= Keep => Trim(s) = s
         /\ Trim(Trim(s)) = Trim(s)
<1>1. Len(s) \in Nat /\ \A i \in 1..Len(s) : s[i] \in Roles
  BY LenProperties, ElementOfSeq
<1>2. CASE Len(s) <= Keep
  BY <1>2 DEF Trim
<1>3. CASE Len(s) > Keep
  <2> DEFINE m == Len(s) - Keep + 2
  <2>1. m \in Int /\ m >= 2 /\ m <= Len(s) /\ 1 \in 1..Len(s)
    BY <1>1, <1>3
  <2>2. << s[1] >> \in Seq(Roles) /\ Len(<< s[1] >>) = 1
    BY <1>1, <2>1
  <2>3. \A i \in m..Len(s) : s[i] \in Roles
    BY <1>1, <2>1
  <2>4. SubSeq(s, m, Len(s)) \in Seq(Roles) /\ Len(SubSeq(s, m, Len(s))) = Len(s) - m + 1
    BY <1>1, <2>1, <2>3, SubSeqProperties
  <2>5. << s[1] >> \o SubSeq(s, m, Len(s)) \in Seq(Roles)
        /\ Len(<< s[1] >> \o SubSeq(s, m, Len(s))) = 1 + Len(SubSeq(s, m, Len(s)))
    BY <2>2, <2>4, ConcatProperties
  <2>6. Trim(s) = << s[1] >> \o SubSeq(s, m, Len(s))
    BY <1>1, <1>3 DEF Trim
  <2>7. Len(Trim(s)) = Keep /\ Trim(s) \in Seq(Roles)
    BY <1>1, <2>1, <2>4, <2>5, <2>6
  <2> HIDE DEF m
  <2>8. Trim(Trim(s)) = Trim(s)
    <3> DEFINE t == Trim(s)
    <3>1. Len(t) <= Keep
      BY <2>7
    <3> HIDE DEF t
    <3>2. Trim(t) = t
      BY <3>1 DEF Trim
    <3> QED
      BY <3>2 DEF t
  <2> QED
    BY <1>1, <1>3, <2>7, <2>8
<1> QED
  BY <1>1, <1>2, <1>3

-----------------------------------------------------------------------------
(* The conversation and its files *)

Calling == pc \in {"tool", "confirm", "ask", "run"}

Pending == IF Calling THEN todo ELSE 0

Stores == [Sessions -> Seq(Roles) \cup {NoSession}]

TalkTypes ==
  /\ msgs \in Seq(Roles) /\ disk \in Stores /\ todo \in Nat /\ cut \in BOOLEAN
  /\ session \in Sessions \cup {NoSession}

Placed ==
  /\ pc # "off" => session \in Sessions
  /\ pc = "think" \/ Calling => msgs # <<>>
  /\ pc \in {"confirm", "ask", "run"} => todo > 0

FilesShort == \A i \in Stored : Len(disk[i]) <= Keep

HistoriesPaired ==
  ~cut => History(msgs, Pending) /\ \A i \in Stored : History(disk[i], 0)

TalkInv == TalkTypes /\ Placed /\ FilesShort /\ HistoriesPaired /\ ConversationKept

\* Before the first start nothing is stored.
LEMMA TalkInitInv == Init => TalkInv
<1> SUFFICES ASSUME Init PROVE TalkInv
  OBVIOUS
<1>1. TalkTypes
  BY PairedShort DEF Init, TalkTypes, Stores
<1>2. Stored = {} /\ pc = "off" /\ session = NoSession /\ msgs = <<>>
  BY DEF Init, Stored
<1>3. HistoriesPaired
  BY <1>2, PairedShort DEF HistoriesPaired, Pending, Calling
<1> QED
  BY <1>1, <1>2, <1>3 DEF TalkInv, Placed, FilesShort, ConversationKept, Calling

\* What a file may become in a step.
Refiled(i) ==
  \/ disk'[i] = disk[i]
  \/ disk'[i] = NoSession
  \/ /\ disk'[i] \in Seq(Roles) /\ Len(disk'[i]) <= Keep
     /\ ~cut' => History(disk'[i], 0)

\* Files that are left, removed, or replaced by a short paired history leave them all so.
LEMMA FilesStayShort ==
  ASSUME TalkTypes, FilesShort, HistoriesPaired, cut => cut', DOMAIN disk' = Sessions,
         disk' = [i \in Sessions |-> disk'[i]], cut \in BOOLEAN,
         \A i \in Sessions : Refiled(i)
  PROVE  /\ disk' \in Stores /\ FilesShort'
         /\ ~cut' => \A i \in Stored' : History(disk'[i], 0)
<1>1. \A i \in Sessions : disk'[i] \in Seq(Roles) \cup {NoSession}
  BY DEF Refiled, TalkTypes, Stores
<1>2. disk' \in Stores
  BY <1>1 DEF Stores
<1>3. ASSUME NEW i \in Stored' PROVE Len(disk'[i]) <= Keep /\ (~cut' => History(disk'[i], 0))
  <2>1. i \in Sessions /\ disk'[i] # NoSession
    BY <1>3 DEF Stored
  <2>2. CASE disk'[i] = disk[i]
    <3>1. i \in Stored
      BY <2>1, <2>2 DEF Stored
    <3> QED
      BY <2>2, <3>1 DEF FilesShort, HistoriesPaired
  <2> QED
    BY <2>1, <2>2 DEF Refiled
<1> QED
  BY <1>2, <1>3 DEF FilesShort

\* saveCurrentSession, wherever it is called, writes what is in memory.
LEMMA SaveInv ==
  ASSUME TalkInv, session \in Sessions, msgs' \in Seq(Roles), session' = session,
         disk' = [disk EXCEPT ![session] = Trim(msgs')],
         pc' \in {"top", "off"}, todo' \in Nat, cut' \in BOOLEAN,
         ~cut' => ~cut /\ Len(msgs') <= Keep /\ History(msgs', 0)
  PROVE  TalkInv'
<1>0. TalkTypes /\ FilesShort /\ HistoriesPaired
  BY DEF TalkInv
<1>1. /\ Trim(msgs') \in Seq(Roles) /\ Len(Trim(msgs')) <= Keep
      /\ ~cut' => Trim(msgs') = msgs'
  BY Trimmed
<1>2. \A i \in Sessions : Refiled(i)
  BY <1>0, <1>1 DEF Refiled, TalkTypes, Stores
<1>3. DOMAIN disk' = Sessions /\ disk' = [i \in Sessions |-> disk'[i]]
      /\ disk'[session] = Trim(msgs')
  BY <1>0 DEF TalkTypes, Stores
<1>4. /\ disk' \in Stores /\ FilesShort'
      /\ ~cut' => \A i \in Stored' : History(disk'[i], 0)
  BY <1>0, <1>2, <1>3, FilesStayShort DEF TalkTypes
<1>5. TalkTypes' /\ Placed'
  BY <1>0, <1>4 DEF TalkTypes, Placed, Calling
<1>6. HistoriesPaired'
  BY <1>4 DEF HistoriesPaired, Pending, Calling
<1>7. ConversationKept'
  BY <1>3 DEF ConversationKept
<1> QED
  BY <1>4, <1>5, <1>6, <1>7 DEF TalkInv

\* Steps that say nothing.
LEMMA MoveInv ==
  ASSUME TalkInv, UNCHANGED << conversation, todo >>,
         \/ pc' = pc
         \/ pc = "top" /\ pc' = "read"
         \/ pc = "read" /\ pc' = "off"
         \/ pc = "tool" /\ todo = 0 /\ pc' = "think"
         \/ pc = "tool" /\ todo > 0 /\ pc' \in {"confirm", "run"}
         \/ pc \in {"confirm", "ask", "run"} /\ pc' \in {"ask", "run"}
  PROVE  TalkInv'
<1>1. UNCHANGED << msgs, session, disk, cut, imported, todo >>
  BY DEF conversation
<1>2. TalkTypes' /\ Placed' /\ FilesShort'
  BY <1>1 DEF TalkInv, TalkTypes, Placed, FilesShort, Stored, Calling
<1>3. Pending' = Pending
  BY <1>1 DEF Pending, Calling
<1>4. HistoriesPaired'
  BY <1>1, <1>3 DEF TalkInv, HistoriesPaired, Stored
<1>5. ConversationKept'
  BY <1>1 DEF TalkInv, ConversationKept, Placed
<1> QED
  BY <1>2, <1>4, <1>5 DEF TalkInv

\* A call is answered; the tool may have written session files.
LEMMA TellInv ==
  ASSUME TalkInv, pc \in {"tool", "confirm", "ask", "run"}, todo > 0, Tell,
         DOMAIN disk' = Sessions, disk' = [i \in Sessions |-> disk'[i]],
         \A i \in Sessions : Refiled(i)
  PROVE  TalkInv'
<1>0. TalkTypes /\ FilesShort /\ HistoriesPaired /\ Placed
  BY DEF TalkInv
<1>1. /\ msgs' = Append(msgs, "result") /\ todo' = todo - 1 /\ pc' = "tool"
      /\ UNCHANGED << session, cut >>
  BY DEF Tell
<1>2. /\ disk' \in Stores /\ FilesShort'
      /\ ~cut' => \A i \in Stored' : History(disk'[i], 0)
  BY <1>0, <1>1, FilesStayShort DEF TalkTypes
<1>3. msgs' \in Seq(Roles) /\ Len(msgs') = Len(msgs) + 1 /\ Len(msgs) \in Nat
  BY <1>0, <1>1, Appended DEF TalkTypes, Roles
<1>4. TalkTypes' /\ Placed'
  <2>1. msgs' # <<>>
    BY <1>3
  <2> QED
    BY <1>0, <1>1, <1>2, <1>3, <2>1 DEF TalkTypes, Placed, Calling
<1>5. ~cut => History(msgs', todo')
  BY <1>0, <1>1, PairedResult DEF HistoriesPaired, Pending, Calling, TalkTypes
<1>6. HistoriesPaired'
  BY <1>1, <1>2, <1>5 DEF HistoriesPaired, Pending, Calling
<1> QED
  BY <1>1, <1>2, <1>4, <1>6 DEF TalkInv, ConversationKept

\* A message that needs no saving yet: the person's, or the model's with calls.
LEMMA SayInv ==
  ASSUME TalkInv, NEW m \in Roles \ {"result"}, msgs' = Append(msgs, m), ~Calling,
         UNCHANGED << session, disk, cut >>,
         \/ pc' = "think" /\ m \notin Calls /\ todo' = todo
         \/ pc' = "tool" /\ msgs # <<>> /\ todo' = Count(m),
         session \in Sessions
  PROVE  TalkInv'
<1>0. TalkTypes /\ FilesShort /\ HistoriesPaired /\ Placed
  BY DEF TalkInv
<1>1. msgs' \in Seq(Roles) /\ Len(msgs') = Len(msgs) + 1 /\ Len(msgs) \in Nat /\ Count(m) \in Nat
  BY <1>0, Appended, CountType DEF TalkTypes
<1>2. msgs' # <<>>
  BY <1>1
<1>3. TalkTypes' /\ Placed' /\ FilesShort'
  BY <1>0, <1>1, <1>2 DEF TalkTypes, Placed, Calling, FilesShort, Stored
<1>4. ~cut => History(msgs', Count(m))
  BY <1>0, PairedSay DEF TalkTypes, HistoriesPaired, Pending
<1>5. m \notin Calls => Count(m) = 0
  BY DEF Count, Calls
<1>6. HistoriesPaired'
  BY <1>0, <1>4, <1>5 DEF HistoriesPaired, Pending, Calling, Stored
<1> QED
  BY <1>3, <1>6 DEF TalkInv, ConversationKept

\* newTUI: the file is loaded, the system message appended, the result trimmed and written.
LEMMA StartTalkInv ==
  ASSUME TalkInv, Start
  PROVE  TalkInv'
<1>0. TalkTypes /\ FilesShort /\ HistoriesPaired
  BY DEF TalkInv
<1>1. PICK i \in Sessions :
        /\ session' = i /\ disk' = [disk EXCEPT ![i] = msgs']
        /\ msgs' = Trim(Append(IF i \in Stored THEN disk[i] ELSE << >>, "system"))
        /\ cut' = (cut \/ (i \in Stored /\ Len(disk[i]) >= Keep))
        /\ pc' = "top" /\ todo' = todo
  BY DEF Start
<1> DEFINE s == IF i \in Stored THEN disk[i] ELSE << >>
<1>2. s \in Seq(Roles) /\ (~cut => History(s, 0)) /\ (~cut' => Len(s) < Keep)
  <2>1. CASE i \in Stored
    <3>1. disk[i] \in Seq(Roles)
      BY <1>0, <2>1 DEF TalkTypes, Stores, Stored
    <3>2. Len(disk[i]) \in Nat
      BY <3>1, LenProperties
    <3>3. s = disk[i] /\ (~cut => History(disk[i], 0))
      BY <1>0, <2>1 DEF HistoriesPaired
    <3>a. ~cut' => ~(Len(disk[i]) >= Keep)
      BY <1>1, <2>1
    <3>4. ~cut' => Len(disk[i]) < Keep
      BY <3>a, <3>2
    <3> QED
      BY <3>1, <3>3, <3>4
  <2>2. CASE i \notin Stored
    BY <2>2, PairedShort
  <2> QED
    BY <2>1, <2>2
<1>3. msgs' = Trim(Append(s, "system"))
  BY <1>1
<1> HIDE DEF s
<1>4. /\ Append(s, "system") \in Seq(Roles) /\ Len(Append(s, "system")) = Len(s) + 1
      /\ Len(s) \in Nat
  BY <1>2, Appended DEF Roles
<1>5. /\ msgs' \in Seq(Roles) /\ Len(msgs') <= Keep /\ Trim(msgs') = msgs'
      /\ ~cut' => msgs' = Append(s, "system")
  <2>1. /\ Trim(Append(s, "system")) \in Seq(Roles) /\ Len(Trim(Append(s, "system"))) <= Keep
        /\ Trim(Trim(Append(s, "system"))) = Trim(Append(s, "system"))
        /\ Len(Append(s, "system")) <= Keep => Trim(Append(s, "system")) = Append(s, "system")
    BY <1>4, Trimmed
  <2>2. ~cut' => Len(Append(s, "system")) <= Keep
    BY <1>2, <1>4
  <2> QED
    BY <1>3, <2>1, <2>2
<1>6. ~cut => History(Append(s, "system"), 0)
  <2>1. "system" \in Roles \ {"result"} /\ "system" \notin Calls /\ Count("system") = 0
    BY DEF Roles, Calls, Count
  <2> QED
    BY <1>2, <2>1, PairedSay
<1>7. ~cut' => ~cut /\ History(msgs', 0)
  BY <1>1, <1>5, <1>6
<1>8. \A h \in Sessions : Refiled(h)
  BY <1>0, <1>1, <1>5, <1>7 DEF Refiled, TalkTypes, Stores
<1>9. DOMAIN disk' = Sessions /\ disk' = [h \in Sessions |-> disk'[h]] /\ disk'[i] = msgs'
  BY <1>0, <1>1 DEF TalkTypes, Stores
<1>10. /\ disk' \in Stores /\ FilesShort' /\ cut' \in BOOLEAN
       /\ ~cut' => \A h \in Stored' : History(disk'[h], 0)
  BY <1>0, <1>1, <1>8, <1>9, FilesStayShort DEF TalkTypes
<1>11. TalkTypes' /\ Placed' /\ HistoriesPaired'
  BY <1>0, <1>1, <1>5, <1>7, <1>10 DEF TalkTypes, Placed, HistoriesPaired, Pending, Calling
<1>12. ConversationKept'
  BY <1>1, <1>5, <1>9 DEF ConversationKept
<1> QED
  BY <1>10, <1>11, <1>12 DEF TalkInv

\* A line, a slash command, or one of the ways out of the loop.
LEMMA PromptTalkInv ==
  ASSUME TalkInv, Prompting
  PROVE  TalkInv'
<1>0. TalkTypes /\ FilesShort /\ HistoriesPaired /\ Placed /\ ConversationKept
  BY DEF TalkInv
<1>1. pc \in {"top", "read"} /\ session \in Sessions
  BY <1>0 DEF Prompting, TopDone, TopReads, ReadStolen, EOF, CtrlC, QuitLine, UserLine, HasLine,
     SwitchSession, NewSession, Clear, DeleteSession, ImportSession, Command, Placed
<1>2. Len(msgs) \in Nat /\ (~cut => History(msgs, 0))
  BY <1>0, <1>1, LenProperties DEF TalkTypes, HistoriesPaired, Pending, Calling
<1>3. CASE TopDone \/ EOF \/ QuitLine
  <2>1. /\ UNCHANGED << msgs, session, todo >> /\ pc' = "off"
        /\ disk' = [disk EXCEPT ![session] = Trim(msgs')] /\ cut' = (cut \/ Len(msgs') > Keep)
    BY <1>3 DEF TopDone, EOF, QuitLine, Exit, Save, tools
  <2>2. ~cut' => ~cut /\ ~(Len(msgs') > Keep)
    BY <2>1
  <2>3. cut' \in BOOLEAN
    BY <2>1
  <2>4. ~cut' => ~cut /\ Len(msgs') <= Keep /\ History(msgs', 0)
    BY <1>2, <2>1, <2>2
  <2> QED
    BY <1>0, <1>1, <2>1, <2>3, <2>4, SaveInv DEF TalkTypes
<1>4. CASE TopReads \/ ReadStolen \/ CtrlC
  BY <1>4, MoveInv DEF TopReads, ReadStolen, CtrlC, tools
<1>5. CASE UserLine
  <2>1. /\ msgs' = Append(msgs, "user") /\ pc' = "think" /\ todo' = todo /\ ~Calling
        /\ UNCHANGED << session, disk, cut >>
    BY <1>1, <1>5 DEF UserLine, Calling
  <2>2. "user" \in Roles \ {"result"} /\ "user" \notin Calls
    BY DEF Roles, Calls
  <2> QED
    BY <1>1, <2>1, <2>2, SayInv
<1>6. CASE SwitchSession
  <2> DEFINE now == [disk EXCEPT ![session] = Trim(msgs)]
  <2>1. PICK i \in Stored : /\ disk' = now /\ session' = i /\ msgs' = now[i]
                            /\ cut' = (cut \/ Len(msgs) > Keep)
    BY <1>6 DEF SwitchSession
  <2>2. pc' = "top" /\ todo' = todo
    BY <1>6 DEF SwitchSession, Command
  <2>3. cut' \in BOOLEAN /\ (~cut' => ~cut /\ ~(Len(msgs) > Keep))
    BY <2>1
  <2>4. /\ Trim(msgs) \in Seq(Roles) /\ Len(Trim(msgs)) <= Keep
        /\ ~cut' => Trim(msgs) = msgs
    BY <1>0, <1>2, <2>3, Trimmed DEF TalkTypes
  <2>5. \A h \in Sessions : Refiled(h)
    BY <1>0, <1>1, <1>2, <2>1, <2>3, <2>4 DEF Refiled, TalkTypes, Stores
  <2>6. DOMAIN disk' = Sessions /\ disk' = [h \in Sessions |-> disk'[h]]
    BY <1>0, <2>1 DEF TalkTypes, Stores
  <2>7. /\ disk' \in Stores /\ FilesShort'
        /\ ~cut' => \A h \in Stored' : History(disk'[h], 0)
    BY <1>0, <2>3, <2>5, <2>6, FilesStayShort DEF TalkTypes
  <2>8. i \in Sessions /\ disk[i] \in Seq(Roles) /\ Len(disk[i]) <= Keep /\ (~cut => History(disk[i], 0))
    BY <1>0 DEF Stored, TalkTypes, Stores, FilesShort, HistoriesPaired
  <2>9. msgs' = disk'[i] /\ msgs' \in {disk[i], Trim(msgs)}
    BY <1>0, <1>1, <2>1, <2>8 DEF TalkTypes, Stores
  <2>10. /\ msgs' \in Seq(Roles) /\ Len(msgs') <= Keep
         /\ ~cut' => History(msgs', 0)
    BY <1>2, <2>3, <2>4, <2>8, <2>9
  <2>11. TalkTypes' /\ Placed'
    BY <1>0, <2>1, <2>2, <2>3, <2>7, <2>8, <2>10 DEF TalkTypes, Placed, Calling
  <2>12. HistoriesPaired'
    BY <2>2, <2>7, <2>10 DEF HistoriesPaired, Pending, Calling
  <2>13. Trim(msgs') = msgs'
    BY <2>10, Trimmed
  <2>14. ConversationKept'
    BY <2>1, <2>9, <2>13 DEF ConversationKept
  <2> QED
    BY <2>7, <2>11, <2>12, <2>14 DEF TalkInv
<1>7. CASE NewSession
  <2>0. todo' = todo
    BY <1>7 DEF NewSession, Command
  <2>1. CASE msgs = << >>
    <3>1. /\ disk' = [disk EXCEPT ![session] = << >>] /\ pc' = "panic"
          /\ UNCHANGED << msgs, session, cut, imported >>
      BY <1>7, <2>1 DEF NewSession
    <3>2. \A h \in Sessions : Refiled(h)
      BY <1>0, <1>1, <3>1, PairedShort, EmptySeq DEF Refiled, TalkTypes, Stores
    <3>3. DOMAIN disk' = Sessions /\ disk' = [h \in Sessions |-> disk'[h]]
      BY <1>0, <3>1 DEF TalkTypes, Stores
    <3>4. /\ disk' \in Stores /\ FilesShort'
          /\ ~cut' => \A h \in Stored' : History(disk'[h], 0)
      BY <1>0, <3>1, <3>2, <3>3, FilesStayShort DEF TalkTypes
    <3>5. TalkTypes' /\ Placed' /\ HistoriesPaired'
      BY <1>0, <1>1, <1>2, <2>0, <3>1, <3>4 DEF TalkTypes, Placed, HistoriesPaired, Pending, Calling
    <3> QED
      BY <3>1, <3>4, <3>5 DEF TalkInv, ConversationKept
  <2>2. CASE msgs # << >>
    <3>1. PICK i \in Fresh :
            /\ disk' = [disk EXCEPT ![session] = Trim(msgs), ![i] = << msgs[1] >>]
            /\ session' = i /\ msgs' = << msgs[1] >> /\ pc' = "top"
            /\ cut' = (cut \/ Len(msgs) > Keep)
      BY <1>7, <2>2 DEF NewSession
    <3>2. i \in Sessions
      BY DEF Fresh
    <3>3. cut' \in BOOLEAN /\ (~cut' => ~cut /\ ~(Len(msgs) > Keep))
      BY <3>1
    <3>4. /\ Trim(msgs) \in Seq(Roles) /\ Len(Trim(msgs)) <= Keep
          /\ ~cut' => Trim(msgs) = msgs
      BY <1>0, <1>2, <3>3, Trimmed DEF TalkTypes
    <3>5. /\ << msgs[1] >> \in Seq(Roles) /\ Len(<< msgs[1] >>) <= Keep
          /\ ~cut => History(<< msgs[1] >>, 0)
      BY <1>0, <1>2, <2>2, PairedFirst DEF TalkTypes
    <3>6. \A h \in Sessions : Refiled(h)
      <4>1. \A h \in Sessions : disk'[h] \in {disk[h], Trim(msgs), << msgs[1] >>}
        BY <1>0, <1>1, <3>1, <3>2 DEF TalkTypes, Stores
      <4>2. ~cut' => History(Trim(msgs), 0) /\ History(<< msgs[1] >>, 0)
        BY <1>2, <3>3, <3>4, <3>5
      <4> QED
        BY <3>4, <3>5, <4>1, <4>2 DEF Refiled
    <3>7. DOMAIN disk' = Sessions /\ disk' = [h \in Sessions |-> disk'[h]] /\ disk'[i] = << msgs[1] >>
      BY <1>0, <3>1, <3>2 DEF TalkTypes, Stores
    <3>8. /\ disk' \in Stores /\ FilesShort'
          /\ ~cut' => \A h \in Stored' : History(disk'[h], 0)
      BY <1>0, <3>3, <3>6, <3>7, FilesStayShort DEF TalkTypes
    <3>9. TalkTypes' /\ Placed' /\ HistoriesPaired'
      BY <1>0, <2>0, <3>1, <3>2, <3>3, <3>5, <3>8 DEF TalkTypes, Placed, HistoriesPaired, Pending, Calling
    <3>10. Trim(<< msgs[1] >>) = << msgs[1] >>
      BY <3>5, Trimmed
    <3>11. ConversationKept'
      BY <3>1, <3>7, <3>10 DEF ConversationKept
    <3> QED
      BY <3>8, <3>9, <3>11 DEF TalkInv
  <2> QED
    BY <2>1, <2>2
<1>8. CASE Clear
  <2>0. todo' = todo
    BY <1>8 DEF Clear, Command
  <2>1. CASE msgs = << >>
    <3>1. pc' = "panic" /\ UNCHANGED << msgs, session, disk, cut, imported >>
      BY <1>8, <2>1 DEF Clear
    <3> QED
      BY <1>0, <1>1, <1>2, <2>0, <3>1 DEF TalkInv, TalkTypes, Placed, Calling, FilesShort, Stored, HistoriesPaired,
         Pending, ConversationKept
  <2>2. CASE msgs # << >>
    <3>1. /\ msgs' = << msgs[1] >> /\ pc' = "top" /\ session' = session
          /\ disk' = [disk EXCEPT ![session] = Trim(msgs')] /\ cut' = (cut \/ Len(msgs') > Keep)
      BY <1>8, <2>2 DEF Clear, Save
    <3>2. << msgs[1] >> \in Seq(Roles) /\ (~cut => History(<< msgs[1] >>, 0))
      BY <1>0, <1>2, <2>2, PairedFirst DEF TalkTypes
    <3>3. cut' \in BOOLEAN /\ (~cut' => ~cut)
      BY <3>1
    <3>4. ~cut' => ~cut /\ Len(msgs') <= Keep /\ History(msgs', 0)
      BY <3>1, <3>2, <3>3
    <3> QED
      BY <1>0, <1>1, <2>0, <3>1, <3>2, <3>3, <3>4, SaveInv DEF TalkTypes
  <2> QED
    BY <2>1, <2>2
<1>9. CASE DeleteSession \/ ImportSession
  <2>1. pc' = "top" /\ UNCHANGED << todo, msgs, session, cut >>
    BY <1>9 DEF DeleteSession, ImportSession, Imports, Command
  <2>2. PICK i \in Sessions :
          \/ disk' = [disk EXCEPT ![i] = NoSession] /\ i # session /\ imported' = imported
          \/ /\ disk' = [disk EXCEPT ![i] = << "system", "user", "answer" >>]
             /\ imported' = (imported \/ i = session)
    BY <1>9 DEF DeleteSession, ImportSession, Imports, Stored
  <2>3. Len(<< "system", "user", "answer" >>) <= Keep
    OBVIOUS
  <2>4. \A h \in Sessions : Refiled(h)
    BY <1>0, <2>2, <2>3, PairedShort DEF Refiled, TalkTypes, Stores
  <2>5. DOMAIN disk' = Sessions /\ disk' = [h \in Sessions |-> disk'[h]]
        /\ (imported' \/ disk'[session] = disk[session]) /\ (imported => imported')
    <3>1. CASE i = session
      BY <1>0, <1>1, <2>2, <3>1 DEF TalkTypes, Stores
    <3>2. CASE i # session
      <4>1. disk'[session] = disk[session]
        BY <1>0, <1>1, <2>2, <3>2 DEF TalkTypes, Stores
      <4>2. imported => imported'
        BY <2>2
      <4>3. DOMAIN disk' = Sessions /\ disk' = [h \in Sessions |-> disk'[h]]
        BY <1>0, <2>2 DEF TalkTypes, Stores
      <4> QED
        BY <4>1, <4>2, <4>3
    <3> QED
      BY <3>1, <3>2
  <2>6. /\ disk' \in Stores /\ FilesShort'
        /\ ~cut' => \A h \in Stored' : History(disk'[h], 0)
    BY <1>0, <2>1, <2>4, <2>5, FilesStayShort DEF TalkTypes
  <2>7. TalkTypes' /\ Placed' /\ HistoriesPaired'
    BY <1>0, <1>1, <1>2, <2>1, <2>6 DEF TalkTypes, Placed, HistoriesPaired, Pending, Calling
  <2>8. ConversationKept'
    BY <1>0, <1>1, <2>1, <2>5 DEF ConversationKept
  <2> QED
    BY <2>6, <2>7, <2>8 DEF TalkInv
<1> QED
  BY <1>3, <1>4, <1>5, <1>6, <1>7, <1>8, <1>9 DEF Prompting

\* Keys while the model thinks, its answer, and its failure.
LEMMA ThinkTalkInv ==
  ASSUME TalkInv, Thinking
  PROVE  TalkInv'
<1>0. TalkTypes /\ FilesShort /\ HistoriesPaired /\ Placed
  BY DEF TalkInv
<1>1. pc = "think"
  BY DEF Thinking, TypeAhead, PressEnter, PressEscape, AfterEscape, Interrupt, Listening, ThinkStolen,
     AnsweredLast, AnsweredCalls, Answered, ThinkFails
<1>2. session \in Sessions /\ msgs # <<>> /\ Len(msgs) \in Nat /\ (~cut => History(msgs, 0)) /\ ~Calling
  BY <1>0, <1>1, LenProperties DEF TalkTypes, HistoriesPaired, Pending, Calling, Placed
<1>3. CASE TypeAhead \/ PressEnter \/ PressEscape \/ AfterEscape \/ Interrupt \/ ThinkStolen
  <2>1. UNCHANGED << pc, conversation, todo >>
    BY <1>3 DEF TypeAhead, PressEnter, PressEscape, AfterEscape, Interrupt, Press, ThinkStolen, tools
  <2> QED
    BY <2>1, MoveInv
<1>4. CASE AnsweredLast
  <2>1. /\ msgs' = Append(msgs, "answer") /\ session' = session /\ pc' = "top" /\ todo' = todo
        /\ disk' = [disk EXCEPT ![session] = Trim(msgs')] /\ cut' = (cut \/ Len(msgs') > Keep)
    BY <1>4 DEF AnsweredLast, Answered, Save
  <2>2. "answer" \in Roles \ {"result"} /\ "answer" \notin Calls /\ Count("answer") = 0
    BY DEF Roles, Calls, Count
  <2>3. msgs' \in Seq(Roles) /\ Len(msgs') = Len(msgs) + 1 /\ (~cut => History(msgs', 0))
    BY <1>0, <1>2, <2>1, <2>2, Appended, PairedSay DEF TalkTypes
  <2>4. cut' \in BOOLEAN /\ (~cut' => ~cut /\ ~(Len(msgs') > Keep))
    BY <2>1
  <2>5. ~cut' => ~cut /\ Len(msgs') <= Keep /\ History(msgs', 0)
    BY <1>2, <2>3, <2>4
  <2> QED
    BY <1>0, <1>2, <2>1, <2>3, <2>4, <2>5, SaveInv DEF TalkTypes
<1>5. CASE AnsweredCalls
  <2>1. PICK m \in Calls : msgs' = Append(msgs, m) /\ todo' = Count(m) /\ session' = session
    BY <1>5 DEF AnsweredCalls, Answered
  <2>2. m \in Roles \ {"result"}
    BY DEF Roles, Calls
  <2>3. pc' = "tool" /\ UNCHANGED << disk, cut >>
    BY <1>5 DEF AnsweredCalls
  <2> QED
    BY <1>2, <2>1, <2>2, <2>3, SayInv
<1>6. CASE ThinkFails
  <2>1. /\ msgs' = SubSeq(msgs, 1, Len(msgs) - 1) /\ session' = session /\ pc' = "top" /\ todo' = todo
        /\ disk' = [disk EXCEPT ![session] = Trim(msgs')]
        /\ cut' = (cut \/ msgs[Len(msgs)] = "result" \/ Len(msgs') > Keep)
    BY <1>6 DEF ThinkFails, tools
  <2>2. msgs' \in Seq(Roles) /\ Len(msgs') \in Nat
    <3>1. \A i \in 1..Len(msgs) - 1 : msgs[i] \in Roles
      BY <1>0, <1>2, ElementOfSeq DEF TalkTypes
    <3>2. msgs' \in Seq(Roles)
      BY <1>2, <2>1, <3>1, SubSeqProperties
    <3> QED
      BY <3>2, LenProperties
  <2>3. cut' \in BOOLEAN /\ (~cut' => ~cut /\ ~(Len(msgs') > Keep) /\ msgs[Len(msgs)] # "result")
    BY <2>1
  <2>4. ~cut' => History(msgs', 0)
    BY <1>0, <1>2, <2>1, <2>3, PairedBack DEF TalkTypes
  <2>5. ~cut' => ~cut /\ Len(msgs') <= Keep /\ History(msgs', 0)
    BY <2>2, <2>3, <2>4
  <2> QED
    BY <1>0, <1>2, <2>1, <2>2, <2>3, <2>5, SaveInv DEF TalkTypes
<1> QED
  BY <1>3, <1>4, <1>5, <1>6 DEF Thinking

\* The calls of a message, with the two tools that write session files.
LEMMA ToolTalkInv ==
  ASSUME TalkInv, Tooling
  PROVE  TalkInv'
<1>0. TalkTypes /\ FilesShort /\ HistoriesPaired /\ Placed
  BY DEF TalkInv
<1>1. CASE \/ NextThink \/ TakeCall \/ ConfirmStolen \/ TypeNo \/ PressArrow \/ ConfirmBreaks
           \/ Confirmed \/ Asks \/ AskStolen \/ AskAnswered
  <2>1. UNCHANGED << conversation, todo >>
    BY <1>1 DEF NextThink, TakeCall, ConfirmStolen, TypeNo, PressArrow, ConfirmBreaks, Confirmed,
       Asks, AskStolen, AskAnswered, tools
  <2>2. \/ pc' = pc
        \/ pc = "tool" /\ todo = 0 /\ pc' = "think"
        \/ pc = "tool" /\ todo > 0 /\ pc' \in {"confirm", "run"}
        \/ pc \in {"confirm", "ask", "run"} /\ pc' \in {"ask", "run"}
    BY <1>1 DEF NextThink, TakeCall, ConfirmStolen, TypeNo, PressArrow, ConfirmBreaks, Confirmed,
       Asks, AskStolen, AskAnswered
  <2> QED
    BY <2>1, <2>2, MoveInv
<1>2. CASE PlanOnly \/ Denied \/ RunTool
  <2>1. Tell /\ disk' = disk /\ pc \in {"tool", "confirm", "run"} /\ todo > 0
    BY <1>0, <1>2 DEF PlanOnly, Denied, RunTool, Placed
  <2> QED
    BY <1>0, <2>1, TellInv DEF Refiled, TalkTypes, Stores
<1>3. CASE SessionSave
  <2>1. PICK i \in Sessions : disk' = [disk EXCEPT ![i] = IF i \in Stored THEN @ ELSE << >>]
    BY <1>3 DEF SessionSave
  <2>2. Tell /\ pc = "run" /\ todo > 0
    BY <1>0, <1>3 DEF SessionSave, Placed
  <2>3. \A h \in Sessions : disk'[h] \in {disk[h], << >>}
    BY <1>0, <2>1 DEF TalkTypes, Stores
  <2>4. Len(<< >>) <= Keep
    BY EmptySeq
  <2>5. \A h \in Sessions : Refiled(h)
    BY <2>3, <2>4, PairedShort DEF Refiled
  <2>6. DOMAIN disk' = Sessions /\ disk' = [h \in Sessions |-> disk'[h]]
    BY <1>0, <2>1 DEF TalkTypes, Stores
  <2> QED
    BY <2>2, <2>5, <2>6, TellInv
<1>4. CASE SessionImport
  <2>1. PICK i \in Sessions : disk' = [disk EXCEPT ![i] = << "system", "user", "answer" >>]
    BY <1>4 DEF SessionImport
  <2>2. Tell /\ pc = "run" /\ todo > 0
    BY <1>0, <1>4 DEF SessionImport, Placed
  <2>3. \A h \in Sessions : disk'[h] \in {disk[h], << "system", "user", "answer" >>}
    BY <1>0, <2>1 DEF TalkTypes, Stores
  <2>4. Len(<< "system", "user", "answer" >>) <= Keep
    OBVIOUS
  <2>5. \A h \in Sessions : Refiled(h)
    BY <2>3, <2>4, PairedShort DEF Refiled
  <2>6. DOMAIN disk' = Sessions /\ disk' = [h \in Sessions |-> disk'[h]]
    BY <1>0, <2>1 DEF TalkTypes, Stores
  <2> QED
    BY <2>2, <2>5, <2>6, TellInv
<1> QED
  BY <1>1, <1>2, <1>3, <1>4 DEF Tooling

\* Every step keeps the conversation.
LEMMA TalkNextInv == TalkInv /\ [Next]_vars => TalkInv'
<1> SUFFICES ASSUME TalkInv, [Next]_vars PROVE TalkInv'
  OBVIOUS
<1>1. CASE EditByHand \/ UNCHANGED vars
  <2>1. UNCHANGED << pc, conversation, todo >>
    BY <1>1 DEF EditByHand, vars, tools
  <2> QED
    BY <2>1, MoveInv
<1> QED
  BY <1>1, StartTalkInv, PromptTalkInv, ThinkTalkInv, ToolTalkInv DEF Next

\* The counted form of pairing implies the property's.
LEMMA PairedMeansPaired ==
  ASSUME NEW s \in Seq(Roles), NEW n \in Nat, PairedTodo(s, n)
  PROVE  Paired(s, FALSE) \/ (n > 0 /\ Paired(s, TRUE))
<1>0. Len(s) \in Nat /\ \A i \in 1..Len(s) : Count(s[i]) \in 0..2
  BY LenProperties, ElementOfSeq, CountType
<1>1. CASE n = 0
  BY <1>0, <1>1 DEF PairedTodo, Paired
<1>2. CASE n > 0
  BY <1>0, <1>2 DEF PairedTodo, Paired
<1>3. n = 0 \/ n > 0
  OBVIOUS
<1> QED
  BY <1>1, <1>2, <1>3

\* Whatever is typed, called, saved, loaded, imported or interrupted, in whatever order:
\* the conversation in memory and each stored one is paired until something was cut, and the
\* file of the session is current wherever the loop waits for a line.
THEOREM ConversationInvariant == Spec => []TalkInv
BY TalkInitInv, TalkNextInv, PTL DEF Spec

\* The model is never shown a call without its result or a result without its call, unless a
\* round was cut (the loop of tui.go, the sessions of session.go).
THEOREM HistoriesArePaired == Spec => []HistoryPaired
<1>1. ASSUME TalkInv PROVE HistoryPaired
  <2>1. CASE cut
    BY <2>1 DEF HistoryPaired
  <2>2. CASE ~cut
    <3>1. msgs \in Seq(Roles) /\ Pending \in Nat /\ PairedTodo(msgs, Pending)
      BY <1>1, <2>2 DEF TalkInv, TalkTypes, HistoriesPaired, History, Pending
    <3>a. Pending > 0 => Calling
      BY DEF Pending
    <3>2. Paired(msgs, FALSE) \/ (Calling /\ Paired(msgs, TRUE))
      BY <3>1, <3>a, PairedMeansPaired
    <3>3. Paired(msgs, FALSE) => Paired(msgs, TRUE)
      BY DEF Paired
    <3> QED
      BY <3>2, <3>3 DEF HistoryPaired, Calling, Paired
  <2> QED
    BY <2>1, <2>2
<1> QED
  BY <1>1, ConversationInvariant, PTL

\* Wherever a line can be read, and after every way out, the session's file holds the
\* conversation (saveCurrentSession and its callers in tui.go).
THEOREM ConversationIsKept == Spec => []ConversationKept
<1>1. TalkInv => ConversationKept
  BY DEF TalkInv
<1> QED
  BY <1>1, ConversationInvariant, PTL

-----------------------------------------------------------------------------
(* Approvals *)

\* Of the readers left behind, each that took a refusal wants no other key.
Strays ==
  /\ DOMAIN stray = {"waits", "drains", "behind", "lost"}
  /\ stray.waits \in Nat /\ stray.drains \in Nat /\ stray.behind \in Nat /\ stray.lost \in Nat
  /\ stray.lost + stray.waits + stray.drains <= stray.behind

\* While a box is open: of a no that was typed, the letter is the first one there, or it
\* went to a reader left behind, or an arrow came before it.
OpenBox ==
  pc = "confirm" =>
    /\ box.wants \in {"run", "skip", "all", "stop"}
    /\ box.first \in {"none", "n"} \/ box.slip # "none"
    /\ box.wants = "skip" /\ box.typed => box.first = "n" \/ box.stolen \/ box.slip # "none"

\* What is known of a tool that runs.
Approved ==
  pc \in {"run", "ask"} =>
    box.wants \in {"run", "all"} \/ Slipped \/ (box.wants = "none" /\ Unasked)

ApprovalTypes ==
  /\ mode \in Modes /\ "terminal" \in DOMAIN left
  /\ DOMAIN box = {"wants", "typed", "first", "stolen", "slip"}

ApprovalInv == ApprovalTypes /\ OpenBox /\ Approved

\* No box is open at first, and no reader is there.
LEMMA ApprovalInitInv == Init => Strays /\ ApprovalInv
<1>1. Init => Strays
  BY DEF Init, Strays, NoStray
<1>2. Init => "terminal" \in DOMAIN left
  BY DEF Init
<1> QED
  BY <1>1, <1>2 DEF Init, ApprovalInv, ApprovalTypes, OpenBox, Approved, NoBox, Modes

\* A reader that takes a key wants one more at most, which is then its last and no refusal yet.
LEMMA StrayedKept == ASSUME Strays, NEW key, Strayed(key) PROVE Strays'
<1>1. Loses(key) \in 0..1 /\ (key \in {"enter", "escape"} => Loses(key) = 0)
  BY DEF Loses
<1>2. CASE /\ stray.waits > 0
           /\ stray' = [stray EXCEPT !.waits = @ - 1,
                                     !.drains = IF key \in {"enter", "escape"} THEN @ + 1 ELSE @,
                                     !.lost = @ + Loses(key)]
  <2>1. CASE key \in {"enter", "escape"}
    BY <1>1, <1>2, <2>1 DEF Strays
  <2>2. CASE key \notin {"enter", "escape"}
    BY <1>1, <1>2, <2>2 DEF Strays
  <2> QED
    BY <2>1, <2>2
<1>3. CASE stray.drains > 0 /\ stray' = [stray EXCEPT !.drains = @ - 1, !.lost = @ + Loses(key)]
  BY <1>1, <1>3 DEF Strays
<1> QED
  BY <1>2, <1>3 DEF Strayed

\* A reader that is left behind wants one key, or one and another.
LEMMA LeaveReaderKept == ASSUME Strays, LeaveReader PROVE Strays'
<1>1. \/ stray' = stray
      \/ stray' = [stray EXCEPT !.behind = @ + 1, !.waits = @ + 1]
      \/ stray' = [stray EXCEPT !.behind = @ + 1, !.drains = @ + 1]
  BY DEF LeaveReader
<1>2. ASSUME stray' = [stray EXCEPT !.behind = @ + 1, !.waits = @ + 1] PROVE Strays'
  BY <1>2 DEF Strays
<1>3. ASSUME stray' = [stray EXCEPT !.behind = @ + 1, !.drains = @ + 1] PROVE Strays'
  BY <1>3 DEF Strays
<1>4. ASSUME stray' = stray PROVE Strays'
  BY <1>4 DEF Strays
<1> QED
  BY <1>1, <1>2, <1>3, <1>4

\* Keys are typed into a line, a thinking, a box or a question; all may go astray.
LEMMA StraysNext == Strays /\ [Next]_vars => Strays'
<1> SUFFICES ASSUME Strays, [Next]_vars PROVE Strays'
  OBVIOUS
<1>1. CASE \E key : Strayed(key)
  BY <1>1, StrayedKept
<1>2. CASE LeaveReader
  BY <1>2, LeaveReaderKept
<1>3. CASE stray' \in {stray, NoStray}
  BY <1>3 DEF Strays, NoStray
<1>4. Prompting => stray' = stray \/ \E key : Strayed(key)
  BY DEF Prompting, TopDone, TopReads, ReadStolen, EOF, CtrlC, QuitLine, UserLine,
     SwitchSession, NewSession, Clear, DeleteSession, ImportSession, Command, keyboard
<1>5. Thinking => stray' = stray \/ LeaveReader \/ \E key : Strayed(key)
  BY DEF Thinking, TypeAhead, PressEnter, PressEscape, AfterEscape, Interrupt, Press, ThinkStolen,
     AnsweredLast, AnsweredCalls, Answered, ThinkFails
<1>6. Tooling => stray' = stray \/ \E key : Strayed(key)
  <2>1. PlanOnly \/ Denied \/ RunTool \/ SessionSave \/ SessionImport => stray' = stray
    BY DEF PlanOnly, Denied, RunTool, SessionSave, SessionImport, Tell, keyboard
  <2>2. NextThink \/ TakeCall \/ TypeNo \/ PressArrow \/ ConfirmBreaks \/ Confirmed \/ Asks \/ AskAnswered
          => stray' = stray
    BY DEF NextThink, TakeCall, TypeNo, PressArrow, ConfirmBreaks, Confirmed, Asks, AskAnswered, keyboard
  <2>3. ConfirmStolen \/ AskStolen => \E key : Strayed(key)
    BY DEF ConfirmStolen, AskStolen
  <2> QED
    BY <2>1, <2>2, <2>3 DEF Tooling
<1>7. Start \/ EditByHand \/ UNCHANGED vars => stray' \in {stray, NoStray}
  BY DEF Start, EditByHand, vars, keyboard
<1> QED
  BY <1>1, <1>2, <1>3, <1>4, <1>5, <1>6, <1>7 DEF Next

\* Keys of the box go to it or to a reader left behind; nothing else opens or answers one.
LEMMA ApprovalNextInv == ApprovalInv /\ [Next]_vars => ApprovalInv'
<1> SUFFICES ASSUME ApprovalInv, [Next]_vars PROVE ApprovalInv'
  OBVIOUS
<1>0. ApprovalTypes /\ OpenBox /\ Approved
  BY DEF ApprovalInv
<1> USE DEF approval, tools
<1>1. CASE Start
  BY <1>0, <1>1 DEF Start, ApprovalInv, ApprovalTypes, OpenBox, Approved, Modes
<1>2. CASE EditByHand \/ UNCHANGED vars
  <2>1. UNCHANGED << pc, box, mode, all, tool >> /\ (left' = left \/ left' = [left EXCEPT !.commands = @ - 1])
    BY <1>2 DEF EditByHand, vars
  <2>2. "terminal" \in DOMAIN left' /\ left'.terminal = left.terminal
    BY <1>0, <2>1 DEF ApprovalTypes
  <2> QED
    BY <1>0, <2>1, <2>2 DEF ApprovalInv, ApprovalTypes, OpenBox, Approved, Slipped, Unasked
<1>3. CASE Prompting
  <2>1. /\ box' = box /\ mode' \in {mode} \cup Modes /\ pc' \in {"off", "top", "read", "think", "panic"}
        /\ left' = left \/ left' = [left EXCEPT !.commands = @ - 1]
    BY <1>3 DEF Prompting, TopDone, TopReads, ReadStolen, EOF, CtrlC, QuitLine, UserLine, HasLine, Exit,
       SwitchSession, NewSession, Clear, DeleteSession, ImportSession, Command
  <2> QED
    BY <1>0, <2>1 DEF ApprovalInv, ApprovalTypes, OpenBox, Approved
<1>4. CASE Thinking
  <2>1. /\ box' = box /\ mode' = mode /\ pc' \in {"think", "top", "tool"}
        /\ left' = left \/ left' = [left EXCEPT !.keys = @ - 1]
    BY <1>4 DEF Thinking, TypeAhead, PressEnter, PressEscape, AfterEscape, Interrupt, Press, Listening,
       ThinkStolen, AnsweredLast, AnsweredCalls, Answered, ThinkFails
  <2> QED
    BY <1>0, <2>1 DEF ApprovalInv, ApprovalTypes, OpenBox, Approved
<1>5. CASE PlanOnly \/ Denied \/ RunTool \/ SessionSave \/ SessionImport
  <2>1. pc' = "tool" /\ box' = NoBox /\ mode' = mode /\ left' = left
    BY <1>5 DEF PlanOnly, Denied, RunTool, SessionSave, SessionImport, Tell
  <2> QED
    BY <1>0, <2>1 DEF ApprovalInv, ApprovalTypes, OpenBox, Approved, NoBox
<1>6. CASE NextThink
  BY <1>0, <1>6 DEF NextThink, ApprovalInv, ApprovalTypes, OpenBox, Approved
<1>7. CASE TakeCall
  <2>1. /\ UNCHANGED << mode, all >> /\ mode # "plan"
        /\ left' = [left EXCEPT !.runs = @ - 1]
    BY <1>7 DEF TakeCall
  <2>2. "terminal" \in DOMAIN left' /\ left'.terminal = left.terminal
    BY <1>0, <2>1 DEF ApprovalTypes
  <2>3. CASE NeedConfirm(tool') /\ left.terminal # "none"
    <3>1. PICK w \in {"run", "skip", "all", "stop"} : box' = [NoBox EXCEPT !.wants = w]
      BY <1>7, <2>3 DEF TakeCall
    <3>2. pc' = "confirm"
      BY <1>7, <2>3 DEF TakeCall
    <3> QED
      BY <1>0, <2>1, <2>2, <3>1, <3>2 DEF ApprovalInv, ApprovalTypes, OpenBox, Approved, NoBox
  <2>4. CASE ~(NeedConfirm(tool') /\ left.terminal # "none")
    <3>1. pc' = "run" /\ box' = NoBox
      BY <1>7, <2>4 DEF TakeCall
    <3>2. left.terminal = "none" \/ all \/ (mode # "manual" /\ ~(mode = "edit" /\ tool' \in IsExecTool))
      BY <2>4 DEF NeedConfirm
    <3>3. left.terminal = "none" \/ all \/ mode = "auto" \/ (mode = "edit" /\ tool' \notin IsExecTool)
      BY <1>0, <2>1, <3>2 DEF ApprovalTypes, Modes
    <3>4. Unasked'
      BY <2>1, <2>2, <3>3 DEF Unasked
    <3> QED
      BY <1>0, <2>1, <2>2, <3>1, <3>4 DEF ApprovalInv, ApprovalTypes, OpenBox, Approved, NoBox
  <2> QED
    BY <2>3, <2>4
<1>8. CASE ConfirmStolen
  <2>1. /\ mode' = mode /\ left' = left /\ pc = "confirm" /\ pc' = "confirm"
        /\ box' = [box EXCEPT !.stolen = @ \/ NextKey = "n", !.typed = TRUE]
    BY <1>8 DEF ConfirmStolen
  <2>2. box.wants = "skip" /\ ~box.typed => NextKey = "n"
    BY DEF NextKey
  <2> HIDE DEF NextKey
  <2>3. /\ DOMAIN box' = DOMAIN box /\ UNCHANGED << box.wants, box.first, box.slip >>
        /\ box'.typed = TRUE /\ box'.stolen = (box.stolen \/ NextKey = "n")
    BY <1>0, <2>1 DEF ApprovalTypes
  <2> QED
    BY <1>0, <2>1, <2>2, <2>3 DEF ApprovalInv, ApprovalTypes, OpenBox, Approved
<1>9. CASE TypeNo
  <2>1. /\ mode' = mode /\ left' = left /\ pc = "confirm" /\ pc' = "confirm"
        /\ box' = [box EXCEPT !.typed = TRUE, !.first = IF box.first = "none" THEN "n" ELSE box.first]
    BY <1>9 DEF TypeNo, Said
  <2> QED
    BY <1>0, <2>1 DEF ApprovalInv, ApprovalTypes, OpenBox, Approved
<1>10. CASE PressArrow \/ ConfirmBreaks
  <2>1. /\ mode' = mode /\ left' = left /\ pc = "confirm" /\ pc' \in {"confirm", "run"}
        /\ \/ box' = [box EXCEPT !.slip = "arrow", !.first = Said("other")]
           \/ box' = [box EXCEPT !.slip = "broken"]
    BY <1>10 DEF PressArrow, ConfirmBreaks
  <2>2. DOMAIN box' = DOMAIN box /\ box'.slip # "none" /\ box'.wants = box.wants
    BY <1>0, <2>1 DEF ApprovalTypes
  <2> QED
    BY <1>0, <2>1, <2>2 DEF ApprovalInv, ApprovalTypes, OpenBox, Approved, Slipped
<1>11. CASE Confirmed
  <2>1. /\ pc = "confirm" /\ pc' = "run" /\ box' = box /\ mode' = mode /\ left' = left
        /\ NextKey = "a" \/ (NextKey = "enter" /\ box.first # "n")
    BY <1>11 DEF Confirmed
  <2>2. box.wants \in {"run", "all"} \/ Slipped
    BY <1>0, <2>1 DEF OpenBox, NextKey, Slipped
  <2> QED
    BY <1>0, <2>1, <2>2 DEF ApprovalInv, ApprovalTypes, OpenBox, Approved, Slipped
<1>12. CASE Asks \/ AskStolen \/ AskAnswered
  <2>1. pc \in {"run", "ask"} /\ pc' \in {"run", "ask"} /\ UNCHANGED << box, mode, all, tool, left >>
    BY <1>12 DEF Asks, AskStolen, AskAnswered
  <2> QED
    BY <1>0, <2>1 DEF ApprovalInv, ApprovalTypes, OpenBox, Approved, Slipped, Unasked
<1> QED
  BY <1>1, <1>2, <1>3, <1>4, <1>5, <1>6, <1>7, <1>8, <1>9, <1>10, <1>11, <1>12 DEF Next, Tooling

\* A tool the person refused, or that needs approval, runs without one only if a reader left
\* behind took the n, an arrow slipped in or the keyboard could not be read, or if there is no
\* terminal (confirmTool, tui.go:828-868); and each such reader takes one n at most.
THEOREM DenialsAreKept == Spec => []DenialKept
<1>1. Strays /\ ApprovalInv => DenialKept
  BY DEF Strays, ApprovalInv, Approved, DenialKept
<1> QED
  BY <1>1, ApprovalInitInv, StraysNext, ApprovalNextInv, PTL DEF Spec

-----------------------------------------------------------------------------
(* The files of the tools *)

\* What a tool told of a key is in the agent's memory, and that in the file unless a write
\* failed; what it told of a section is in config.yml, unless that was broken once.
Told(f) ==
  /\ DOMAIN f = {"config", "dynamic", "memory", "mine", "saved", "told", "broken"}
  /\ DOMAIN f.config = {"form", "has"} /\ f.config.form \in {"none", "yaml", "broken"}
  /\ f.told \cap Keys \subseteq f.mine
  /\ f.saved => f.mine \subseteq f.memory
  /\ f.broken = FALSE =>
       /\ f.config.form # "broken"
       /\ f.told \cap Sections \subseteq (IF f.config.form = "yaml" THEN f.config.has ELSE {})

\* No key of the memory is a section of config.yml.
LEMMA Apart == Keys \cap Sections = {}
BY DEF Keys, Sections

\* An editing tool that sets or removes a section, ...
LEMMA SetTold == ASSUME NEW f, Told(f), NEW s \in Sections PROVE Told(Set(f, s)) /\ Told(Unset(f, s))
<1>1. s \notin Keys
  BY Apart
<1>2. Told(Set(f, s))
  BY <1>1 DEF Told, Set, Written, Opened
<1>3. Told(Unset(f, s))
  BY <1>1 DEF Told, Unset, Written, Opened
<1> QED
  BY <1>2, <1>3

\* ... one that writes all of config.yml, ...
LEMMA ReplacedTold == ASSUME NEW f, Told(f), NEW has \in SUBSET Sections PROVE Told(Replaced(f, has))
<1>1. has \cap Keys = {}
  BY Apart
<1>2. (f.told \cap Keys) \cap Sections = {}
  BY Apart
<1> QED
  BY <1>1, <1>2 DEF Told, Replaced, Written

\* ... one that remembers, ...
LEMMA RemembersTold ==
  ASSUME NEW f, Told(f), NEW k \in Keys, NEW g \in Remembers(f, k) PROVE Told(g)
<1> DEFINE set == [f EXCEPT !.mine = @ \cup {k}, !.told = @ \cup {k}]
<1>1. k \notin Sections
  BY Apart
<1>2. /\ DOMAIN set = DOMAIN f /\ set.config = f.config /\ set.broken = f.broken
      /\ set.mine = f.mine \cup {k} /\ set.told = f.told \cup {k}
  BY DEF Told
<1>3. \/ g = [set EXCEPT !.memory = set.mine, !.saved = TRUE]
      \/ \E m \in {f.memory, {}} : g = [set EXCEPT !.memory = m, !.saved = FALSE]
  BY DEF Remembers
<1> HIDE DEF set
<1>4. /\ DOMAIN g = DOMAIN f /\ g.config = f.config /\ g.broken = f.broken
      /\ g.mine = f.mine \cup {k} /\ g.told = f.told \cup {k}
      /\ g.saved => g.memory = g.mine
  BY <1>2, <1>3 DEF Told
<1> QED
  BY <1>1, <1>4 DEF Told

\* ... and a write of config.yml that fails leave nothing told that is not there.
LEMMA CutOffTold == ASSUME NEW f, Told(f), NEW g \in CutOff(f) PROVE Told(g)
<1>1. PICK form \in {"yaml", "broken"} :
        g = [f EXCEPT !.config = [form |-> form, has |-> {}], !.broken = TRUE]
  BY DEF CutOff
<1> QED
  BY <1>1 DEF Told

\* No tool of Registry.Call forgets what another was told.
LEMMA EffectsTold ==
  ASSUME NEW f, Told(f), NEW t, NEW yes, NEW g \in Effects(t, f, yes)
  PROVE  Told(g)
<1>1. \A s \in Sections : Told(Set(f, s)) /\ Told(Unset(f, s))
  BY SetTold
<1>2. \A has \in SUBSET Sections : Told(Replaced(f, has))
  BY ReplacedTold
<1>3. \A k \in Keys : \A h \in Remembers(f, k) : Told(h)
  BY RemembersTold
<1>4. \A h \in CutOff(f) : Told(h)
  BY CutOffTold
<1>5. \/ g = f \/ g \in CutOff(f)
      \/ \E s \in Sections : g = Set(f, s) \/ g = Unset(f, s)
      \/ \E has \in SUBSET Sections : g = Replaced(f, has)
      \/ \E k \in Keys : g \in Remembers(f, k)
      \/ f.config.form = "yaml" /\ g = [f EXCEPT !.config = Written(f.config.has)]
      \/ \E d : g = [f EXCEPT !.dynamic = d]
      \/ g = [f EXCEPT !.memory = @ \cup {"remoteHost"}]
      \/ g = [f EXCEPT !.memory = {}, !.saved = FALSE]
  BY DEF Effects, URLAction, Flow, Upstream, MTLS, SwitchGroup, UpdateConfig, GenConfig, InitFiles,
     Writes, AddsTo, AddProxy, AddRule, Remember, FileCopy, RunRemote, Sections, Keys
<1>6. ASSUME f.config.form = "yaml", g = [f EXCEPT !.config = Written(f.config.has)] PROVE Told(g)
  BY <1>6 DEF Told, Written
<1>7. ASSUME NEW d, g = [f EXCEPT !.dynamic = d] PROVE Told(g)
  BY <1>7 DEF Told
<1>8. ASSUME NEW m, f.memory \subseteq m, g = [f EXCEPT !.memory = m] PROVE Told(g)
  BY <1>8 DEF Told
<1>9. ASSUME g = [f EXCEPT !.memory = {}, !.saved = FALSE] PROVE Told(g)
  BY <1>9 DEF Told
<1> QED
  BY <1>1, <1>2, <1>3, <1>4, <1>5, <1>6, <1>7, <1>8, <1>9

\* Nor does a person with an editor, but for a file that does not parse.
LEMMA HandEditTold ==
  ASSUME NEW f, Told(f), NEW g \in HandEdit(f)
  PROVE  Told(g)
<1>1. \/ g = [f EXCEPT !.config.form = "broken", !.broken = TRUE]
      \/ g = [f EXCEPT !.config.form = "yaml"] /\ f.config.form # "none"
  BY DEF HandEdit
<1>2. CASE g = [f EXCEPT !.config.form = "broken", !.broken = TRUE]
  BY <1>2 DEF Told
<1>3. CASE g = [f EXCEPT !.config.form = "yaml"] /\ f.config.form # "none"
  BY <1>3 DEF Told
<1> QED
  BY <1>1, <1>2, <1>3

FilesTold == Told(files)

\* No step of the loop but a tool, a start and a hand edit touches these files.
LEMMA FilesNextTold == FilesTold /\ [Next]_vars => FilesTold'
<1> SUFFICES ASSUME Told(files), [Next]_vars PROVE Told(files')
  BY DEF FilesTold
<1>1. CASE Start
  BY <1>1 DEF Start, Reopened, Told
<1>2. CASE EditByHand
  BY <1>2, HandEditTold DEF EditByHand
<1>3. CASE RunTool
  BY <1>3, EffectsTold DEF RunTool
<1>4. CASE UNCHANGED files
  BY <1>4
<1>5. Next => Start \/ EditByHand \/ RunTool \/ UNCHANGED files
  <2>1. Prompting => UNCHANGED files
    BY DEF Prompting, TopDone, TopReads, ReadStolen, EOF, CtrlC, QuitLine, UserLine,
       SwitchSession, NewSession, Clear, DeleteSession, ImportSession, Command, tools
  <2>2. Thinking => UNCHANGED files
    BY DEF Thinking, TypeAhead, PressEnter, PressEscape, AfterEscape, Interrupt, Press, ThinkStolen,
       AnsweredLast, AnsweredCalls, Answered, ThinkFails, tools
  <2>3. Tooling => RunTool \/ UNCHANGED files
    BY DEF Tooling, NextThink, PlanOnly, TakeCall, ConfirmStolen, TypeNo, PressArrow, ConfirmBreaks,
       Confirmed, Denied, Asks, AskStolen, AskAnswered, SessionSave, SessionImport, tools
  <2> QED
    BY <2>1, <2>2, <2>3 DEF Next
<1>6. UNCHANGED vars => UNCHANGED files
  BY DEF vars, tools
<1> QED
  BY <1>1, <1>2, <1>3, <1>4, <1>5, <1>6

\* What a tool reported as remembered is in the agent's memory, and in its file unless the
\* last write failed (memory.go:61-71); what it reported as set is in config.yml, unless that
\* file was ever cut off or did not parse (extra_tools.go).
THEOREM NothingIsForgotten == Spec => []NothingForgotten
<1>1. Init => FilesTold
  BY DEF Init, NoFiles, Written, FilesTold, Told
<1>2. FilesTold => NothingForgotten
  BY DEF FilesTold, Told, NothingForgotten
<1> QED
  BY <1>1, <1>2, FilesNextTold, PTL DEF Spec
=============================================================================
