----------------------------- MODULE AgentLoop -----------------------------
(***************************************************************************)
(* The agent's terminal (agent/tui.go): the loop that reads a line, lets   *)
(* the model think, runs the tools the model calls, asks for approval, and *)
(* keeps the conversation and its file (agent/session.go).                 *)
(*                                                                         *)
(* The keyboard has more than one reader.  While the model thinks, a       *)
(* goroutine reads it, for an interrupt or for what is typed ahead; when   *)
(* the model answers, that goroutine is left in its Read, and what is      *)
(* typed next may be its own.  A key goes to whoever reads.                *)
(*                                                                         *)
(* A message is its role, an assistant's with the number of its calls.     *)
(* Names, numbers of turns and all drawing are left out.                   *)
(***************************************************************************)
EXTENDS AgentTools, Integers, Sequences

CONSTANTS
  Days,         \* whether there is a terminal, and bounds: the tools the model calls, how
                \* many runs of them, how many commands, imports and hand edits, how many
                \* keys while the model thinks, of how many readers left behind account is kept
  Sessions,     \* session identifiers
  NoSession,    \* no file of that identifier
  Keep,         \* maxSessionMessages
  MaxMessages   \* bound: messages of a conversation

ASSUME AgentAssumption ==
  /\ Days \subseteq [terminal : {"full", "input", "none"}, offered : SUBSET Tools,
                     runs : Nat, commands : Nat, keys : Nat, stray : Nat]
  /\ NoSession \notin Sessions
  /\ Keep \in Nat \ 0 .. 2  \* an imported session fits
  /\ MaxMessages \in Nat

\* an assistant's message with calls, by their number
Calls == {"call", "calls"}

Roles == {"system", "user", "answer", "result"} \cup Calls

Count(m) == IF m = "call" THEN 1 ELSE IF m = "calls" THEN 2 ELSE 0

Modes == {"manual", "plan", "edit", "auto"}

VARIABLES
  pc,        \* "off", "top", "read", "think", "tool", "confirm", "ask", "run" or "panic"
  msgs,      \* the conversation
  session,   \* its identifier
  disk,      \* the session files
  mode,      \* of approval, for the calls behind a line
  all,       \* approveAll
  todo,      \* calls of the model's message that are not done
  tool,      \* the one at hand
  reader,    \* the thinking's reader: [at, typed, pressed]
  stray,     \* readers left behind: [waits, drains, behind, lost], how many want one key
             \* more, or one and another, how many there ever were, and refusals they took
  box,       \* the confirmation: what the person wants, typed, the first letter that came,
             \* whether a refusal was taken, and a slip: "arrow", or "broken", a failed read
  answer,    \* what tuiAsk returned: "none", "yes" or "other"
  pending,   \* pendingAnswer is not empty
  files,
  left,      \* what is left of the day
  cut,       \* a round of calls, or a file, was cut: history
  imported   \* the session's file was replaced by an import: history

conversation == << msgs, session, disk, cut, imported >>
keyboard     == << reader, stray >>
approval     == << mode, all, box >>
tools        == << todo, tool, answer, pending, files, left >>
vars         == << pc, conversation, keyboard, approval, tools >>

-----------------------------------------------------------------------------
(* Conversations and their files *)

\* trimMessages: the first, and the latest Keep - 1
Trim(s) ==
  IF Len(s) <= Keep THEN s
  ELSE << s[1] >> \o SubSeq(s, Len(s) - Keep + 2, Len(s))

Room(n) == Len(msgs) + n <= MaxMessages

\* saveCurrentSession
Save ==
  /\ disk' = [disk EXCEPT ![session] = Trim(msgs')]
  /\ cut' = (cut \/ Len(msgs') > Keep)
  /\ imported' = FALSE

Idle    == [at |-> "gone", typed |-> FALSE, pressed |-> FALSE]
NoStray == [waits |-> 0, drains |-> 0, behind |-> 0, lost |-> 0]
NoBox   == [wants |-> "none", typed |-> FALSE, first |-> "none", stolen |-> FALSE, slip |-> "none"]

\* rawMode: input and output are a terminal.  Without, no key is read but in lines
Raw == left.terminal = "full"

\* the thinking's reader
Listener == [Idle EXCEPT !.at = IF Raw THEN "key" ELSE "gone"]

Init ==
  /\ pc = "off"
  /\ msgs = << >>
  /\ session = NoSession
  /\ disk = [i \in Sessions |-> NoSession]
  /\ mode = "manual" /\ all = FALSE
  /\ todo = 0 /\ tool = "get_config"
  /\ reader = Idle
  /\ stray = NoStray
  /\ box = NoBox
  /\ answer = "none" /\ pending = FALSE
  /\ files \in {NoFiles, [NoFiles EXCEPT !.config = Written({"groups"})]}
  /\ left \in Days
  /\ cut = FALSE /\ imported = FALSE

Stored == {i \in Sessions : disk[i] # NoSession}

Fresh == Sessions \ Stored

\* newTUI, with --continue or without: the system message goes to the end.  modeIdx is 0,
\* which is manual, not the default that tui.go:746 names
Start ==
  /\ pc = "off"
  /\ \E i \in Sessions :
       /\ session' = i
       /\ msgs' = Trim(Append(IF i \in Stored THEN disk[i] ELSE << >>, "system"))
       /\ i \in Stored => Len(disk[i]) < MaxMessages
       /\ disk' = [disk EXCEPT ![i] = msgs']
       /\ cut' = (cut \/ (i \in Stored /\ Len(disk[i]) >= Keep))
  /\ imported' = FALSE
  /\ files' = Reopened(files)
  /\ mode' = "manual" /\ all' = FALSE
  /\ stray' = NoStray
  /\ pc' = "top"
  /\ UNCHANGED << reader, box, todo, tool, answer, pending, left >>

-----------------------------------------------------------------------------
(* Readers left behind *)

\* the no of a confirmation is one that is lost
Loses(key) == IF pc = "confirm" /\ key = "n" THEN 1 ELSE 0

\* A fault the properties are to notice: it goes on behind a letter
StrayedOn(key) ==
  \/ /\ stray.waits > 0
     /\ stray' = IF key \in {"enter", "escape"}
                 THEN [stray EXCEPT !.waits = @ - 1, !.drains = @ + 1]
                 ELSE [stray EXCEPT !.lost = @ + Loses(key)]
  \/ /\ stray.drains > 0
     /\ stray' = [stray EXCEPT !.drains = @ - 1, !.lost = @ + Loses(key)]

\* what a reader with no thinking behind it does with a key: behind Enter and
\* behind Escape it wants another, and then it sees that its context is done
Strayed(key) ==
  \/ /\ stray.waits > 0
     /\ stray' = [stray EXCEPT !.waits = @ - 1,
                               !.drains = IF key \in {"enter", "escape"} THEN @ + 1 ELSE @,
                               !.lost = @ + Loses(key)]
  \/ /\ stray.drains > 0
     /\ stray' = [stray EXCEPT !.drains = @ - 1, !.lost = @ + Loses(key)]

-----------------------------------------------------------------------------
(* The loop's top, and the line that is read *)

Exit ==
  /\ UNCHANGED msgs
  /\ Save
  /\ pc' = "off"

\* the context was cancelled meanwhile: only here is it looked at
TopDone ==
  /\ pc = "top"
  /\ Exit
  /\ pending' = FALSE
  /\ UNCHANGED << session, keyboard, approval, todo, tool, answer, files, left >>

\* interruptedInput is drawn here, and wiped by readLine before a key is read
TopReads ==
  /\ pc = "top" /\ ~pending
  /\ pc' = "read"
  /\ UNCHANGED << conversation, keyboard, approval, tools >>

\* a key of the line, or of the empty line, that went to a reader left behind
ReadStolen ==
  /\ pc = "read"
  /\ \E key \in {"enter", "escape", "char"} : Strayed(key)
  /\ UNCHANGED << pc, conversation, reader, approval, tools >>

\* a line of one's own, or the answer to a question, which is a line once more
HasLine ==
  \/ pc = "read"
  \/ pc = "top" /\ pending

Consumed == pending' = FALSE

\* Ctrl-D, or an empty line that is no terminal's
EOF ==
  /\ pc = "read"
  /\ Exit
  /\ UNCHANGED << session, keyboard, approval, tools >>

\* Ctrl-C in the line: run returns at once
CtrlC ==
  /\ pc = "read" /\ Raw
  /\ pc' = "off"
  /\ UNCHANGED << conversation, keyboard, approval, tools >>

QuitLine ==
  /\ HasLine
  /\ Exit
  /\ Consumed
  /\ UNCHANGED << session, keyboard, approval, todo, tool, answer, files, left >>

\* Tab, before the line is sent, goes through the modes
UserLine ==
  /\ HasLine /\ Room(1)
  /\ msgs' = Append(msgs, "user")
  /\ Consumed
  /\ pc' = "think"
  /\ mode' \in IF Raw THEN Modes ELSE {mode}
  /\ reader' = Listener
  /\ UNCHANGED << session, disk, cut, imported, stray, all, box, todo, tool, answer, files, left >>

-----------------------------------------------------------------------------
(* Slash commands.  /rename rewrites the session's file as it is. *)

Command ==
  /\ HasLine /\ left.commands > 0
  /\ left' = [left EXCEPT !.commands = @ - 1]
  /\ Consumed
  /\ UNCHANGED << keyboard, approval, todo, tool, answer, files >>

\* saves the one, loads the other; what was loaded is not written
SwitchSession ==
  /\ Command
  /\ \E i \in Stored :
       LET now == [disk EXCEPT ![session] = Trim(msgs)] IN
       /\ disk' = now
       /\ session' = i
       /\ msgs' = now[i]
       /\ cut' = (cut \/ Len(msgs) > Keep)
  /\ imported' = FALSE
  /\ pc' = "top"

\* t.msgs[0] of a session that has none
NewSession ==
  /\ Command
  /\ IF msgs = << >>
     THEN /\ disk' = [disk EXCEPT ![session] = << >>]
          /\ pc' = "panic"
          /\ UNCHANGED << msgs, session, cut, imported >>
     ELSE \E i \in Fresh :
          /\ disk' = [disk EXCEPT ![session] = Trim(msgs), ![i] = << msgs[1] >>]
          /\ session' = i
          /\ msgs' = << msgs[1] >>
          /\ cut' = (cut \/ Len(msgs) > Keep)
          /\ imported' = FALSE
          /\ pc' = "top"

Clear ==
  /\ Command
  /\ IF msgs = << >>
     THEN pc' = "panic" /\ UNCHANGED << msgs, session, disk, cut, imported >>
     ELSE /\ msgs' = << msgs[1] >>
          /\ Save
          /\ pc' = "top"
          /\ UNCHANGED session

DeleteSession ==
  /\ Command
  /\ \E i \in Stored \ {session} : disk' = [disk EXCEPT ![i] = NoSession]
  /\ pc' = "top"
  /\ UNCHANGED << msgs, session, cut, imported >>

\* the export of some session of that identifier
Imports(i) ==
  /\ disk' = [disk EXCEPT ![i] = << "system", "user", "answer" >>]
  /\ imported' = (imported \/ i = session)
  /\ UNCHANGED << msgs, session, cut >>

ImportSession ==
  /\ Command
  /\ \E i \in Sessions : Imports(i)
  /\ pc' = "top"

\* somebody with an editor, at any time
EditByHand ==
  /\ left.commands > 0 /\ pc = "read"
  /\ files' \in HandEdit(files)
  /\ left' = [left EXCEPT !.commands = @ - 1]
  /\ UNCHANGED << pc, conversation, keyboard, approval, todo, tool, answer, pending >>

-----------------------------------------------------------------------------
(* thinkLoop: the goroutine at the keyboard *)

Press(r) ==
  /\ left.keys > 0
  /\ left' = [left EXCEPT !.keys = @ - 1]
  /\ reader' = r
  /\ UNCHANGED << pc, conversation, stray, approval, todo, tool, answer, pending, files >>

Listening == pc = "think" /\ reader.at # "gone"

TypeAhead ==
  /\ Listening /\ reader.at = "key"
  /\ Press([reader EXCEPT !.typed = TRUE])

\* Enter is followed by one more Read before it cancels
PressEnter ==
  /\ Listening /\ reader.at = "key"
  /\ Press([reader EXCEPT !.at = "drain"])

PressEscape ==
  /\ Listening /\ reader.at = "key"
  /\ Press([reader EXCEPT !.at = "escape"])

\* Enter adds a line, a letter itself, an arrow the history's line or none
AfterEscape ==
  /\ Listening /\ reader.at = "escape"
  /\ \E typed \in BOOLEAN : Press([reader EXCEPT !.at = "key", !.typed = typed])

\* a Ctrl-C is a letter behind Escape
Interrupt ==
  /\ Listening
  /\ Press(IF reader.at = "escape" THEN [reader EXCEPT !.at = "key", !.typed = TRUE]
           ELSE [reader EXCEPT !.at = "gone", !.pressed = TRUE])

ThinkStolen ==
  /\ pc = "think"
  /\ \E key \in {"enter", "escape", "char"} : Strayed(key)
  /\ UNCHANGED << pc, conversation, reader, approval, tools >>

\* 150 ms later nobody waits for the goroutine any more
LeaveReader ==
  /\ reader' = Idle
  /\ stray' = IF reader.at = "gone" \/ stray.behind = left.stray THEN stray
              ELSE IF reader.at = "key"
              THEN [stray EXCEPT !.behind = @ + 1, !.waits = @ + 1]
              ELSE [stray EXCEPT !.behind = @ + 1, !.drains = @ + 1]

\* what was typed and sent beats the answer
Heard == reader.pressed /\ reader.typed

Answered(m) ==
  /\ pc = "think" /\ ~Heard
  /\ Room(1 + Count(m))
  /\ msgs' = Append(msgs, m)
  /\ LeaveReader
  /\ UNCHANGED << session, approval, tool, answer, pending, files, left >>

\* A fault the properties are to notice: the answer is not saved
AnsweredUnsaved ==
  /\ Answered("answer")
  /\ pc' = "top"
  /\ UNCHANGED << todo, disk, cut, imported >>

AnsweredLast ==
  /\ Answered("answer")
  /\ Save
  /\ pc' = "top"
  /\ UNCHANGED todo

AnsweredCalls ==
  /\ \E m \in Calls : Answered(m) /\ todo' = Count(m)
  /\ pc' = "tool"
  /\ UNCHANGED << disk, cut, imported >>

\* an error of Complete, or an interrupt: the last message is taken back, which
\* is the person's in the first round and a tool's in a later one
ThinkFails ==
  /\ pc = "think"
  /\ LeaveReader
  /\ msgs' = SubSeq(msgs, 1, Len(msgs) - 1)
  /\ disk' = [disk EXCEPT ![session] = Trim(msgs')]
  /\ cut' = (cut \/ msgs[Len(msgs)] = "result" \/ Len(msgs') > Keep)
  /\ imported' = FALSE
  /\ pc' = "top"
  /\ UNCHANGED << session, approval, tools >>

-----------------------------------------------------------------------------
(* The calls of a message, one after the other *)

NextThink ==
  /\ pc = "tool" /\ todo = 0
  /\ pc' = "think"
  /\ reader' = Listener
  /\ UNCHANGED << conversation, stray, approval, tools >>

NeedConfirm(t) ==
  /\ mode = "manual" \/ (mode = "edit" /\ t \in IsExecTool)
  /\ ~all

\* A fault the properties are to notice: a call without a result
TellNothing ==
  /\ UNCHANGED msgs
  /\ todo' = todo - 1
  /\ pc' = "tool"
  /\ tool' = "get_config" /\ answer' = "none" /\ box' = NoBox
  /\ UNCHANGED << session, cut, keyboard, mode >>

\* the result of a call, which is told to the model
Tell ==
  /\ msgs' = Append(msgs, "result")
  /\ todo' = todo - 1
  /\ pc' = "tool"
  /\ tool' = "get_config" /\ answer' = "none" /\ box' = NoBox
  /\ UNCHANGED << session, cut, keyboard, mode >>

PlanOnly ==
  /\ pc = "tool" /\ todo > 0 /\ mode = "plan"
  /\ Tell
  /\ UNCHANGED << disk, imported, all, pending, files, left >>

\* the box is drawn, or the tool runs at once: confirmTool says yes to no terminal
TakeCall ==
  /\ pc = "tool" /\ todo > 0 /\ mode # "plan" /\ left.runs > 0
  /\ tool' \in left.offered
  /\ left' = [left EXCEPT !.runs = @ - 1]
  /\ IF NeedConfirm(tool') /\ left.terminal # "none"
     THEN pc' = "confirm" /\ \E w \in {"run", "skip", "all", "stop"} :
                               box' = [NoBox EXCEPT !.wants = w]
     ELSE pc' = "run" /\ box' = NoBox
  /\ answer' = "none"
  /\ UNCHANGED << conversation, keyboard, mode, all, todo, pending, files >>

-----------------------------------------------------------------------------
(* confirmTool, key by key: n and Enter, Enter alone, a, or Ctrl-C *)

\* the person presses the next key of what they want; Enter again if nothing came of it
NextKey ==
  CASE box.wants = "run"  -> "enter"
    [] box.wants = "skip" -> IF box.typed THEN "enter" ELSE "n"
    [] box.wants = "all"  -> IF box.typed THEN "enter" ELSE "a"
    [] box.wants = "stop" -> "ctrl-c"

ConfirmStolen ==
  /\ pc = "confirm"
  /\ Strayed(NextKey)
  /\ box' = [box EXCEPT !.stolen = @ \/ NextKey = "n", !.typed = TRUE]
  /\ UNCHANGED << pc, conversation, reader, mode, all, tools >>

Said(letter) == IF box.first = "none" THEN letter ELSE box.first

TypeNo ==
  /\ pc = "confirm" /\ NextKey = "n"
  /\ box' = [box EXCEPT !.typed = TRUE, !.first = Said("n")]
  /\ UNCHANGED << pc, conversation, keyboard, mode, all, tools >>

\* the bytes of an arrow are letters here, and the A of the one that goes up approves all
PressArrow ==
  /\ pc = "confirm" /\ box.slip = "none"
  /\ box' = [box EXCEPT !.slip = "arrow", !.first = Said("other")]
  /\ \/ pc' = pc /\ UNCHANGED all
     \/ pc' = "run" /\ all' = TRUE
  /\ UNCHANGED << conversation, keyboard, mode, tools >>

\* a read that fails is a yes; so is Ctrl-D, on a terminal that is not raw
ConfirmBreaks ==
  /\ pc = "confirm"
  /\ box' = [box EXCEPT !.slip = "broken"]
  /\ pc' = "run"
  /\ UNCHANGED << conversation, keyboard, mode, all, tools >>

Confirmed ==
  /\ pc = "confirm"
  /\ \/ NextKey = "enter" /\ box.first # "n" /\ UNCHANGED all
     \/ NextKey = "a" /\ all' = TRUE
  /\ pc' = "run"
  /\ UNCHANGED << conversation, keyboard, mode, box, tools >>

\* Ctrl-C is a signal on a terminal that is not raw
Denied ==
  /\ pc = "confirm"
  /\ (NextKey = "ctrl-c" /\ Raw) \/ (NextKey = "enter" /\ box.first = "n")
  /\ Tell
  /\ UNCHANGED << disk, imported, all, pending, files, left >>

-----------------------------------------------------------------------------
(* Registry.Call *)

Asks ==
  /\ pc = "run" /\ answer = "none"
  /\ tool \in Asking
  /\ pc' = "ask"
  /\ UNCHANGED << conversation, keyboard, approval, tools >>

AskStolen ==
  /\ pc = "ask"
  /\ \E key \in {"enter", "escape", "char"} : Strayed(key)
  /\ UNCHANGED << pc, conversation, reader, approval, tools >>

\* tuiAsk: the answer goes to the tool and to pendingAnswer, Ctrl-C and a read that fails
\* leave that alone; interactiveAsk, of a terminal that is not raw, knows none, and
\* silentAsk says nothing
AskAnswered ==
  /\ pc = "ask"
  /\ \/ Raw /\ \E a \in {"yes", "other"} : answer' = a /\ pending' = TRUE
     \/ Raw /\ answer' = "other" /\ pending' = FALSE  \* an empty line
     \/ left.terminal # "none" /\ answer' = "yes" /\ UNCHANGED pending
     \/ answer' = "other" /\ UNCHANGED pending
  /\ pc' = "run"
  /\ UNCHANGED << conversation, keyboard, approval, todo, tool, files, left >>

RunTool ==
  /\ pc = "run" /\ tool \notin {"session_save", "session_import"}
  /\ files' \in Effects(tool, files, answer = "yes")
  /\ Tell
  /\ UNCHANGED << disk, imported, all, pending, left >>

\* session_save writes a session as it is on the disk, or a new one without messages
SessionSave ==
  /\ pc = "run" /\ tool = "session_save"
  /\ \E i \in Sessions :
       disk' = [disk EXCEPT ![i] = IF i \in Stored THEN @ ELSE << >>]
  /\ Tell
  /\ UNCHANGED << imported, all, pending, files, left >>

SessionImport ==
  /\ pc = "run" /\ tool = "session_import"
  /\ \E i \in Sessions :
       /\ disk' = [disk EXCEPT ![i] = << "system", "user", "answer" >>]
       /\ imported' = (imported \/ i = session)
  /\ Tell
  /\ UNCHANGED << all, pending, files, left >>

-----------------------------------------------------------------------------
Thinking ==
  \/ TypeAhead \/ PressEnter \/ PressEscape \/ AfterEscape \/ Interrupt \/ ThinkStolen
  \/ AnsweredLast \/ AnsweredCalls \/ ThinkFails

Tooling ==
  \/ NextThink \/ PlanOnly \/ TakeCall
  \/ ConfirmStolen \/ TypeNo \/ PressArrow \/ ConfirmBreaks \/ Confirmed \/ Denied
  \/ Asks \/ AskStolen \/ AskAnswered \/ RunTool \/ SessionSave \/ SessionImport

Prompting ==
  \/ TopDone \/ TopReads \/ ReadStolen \/ EOF \/ CtrlC \/ QuitLine \/ UserLine
  \/ SwitchSession \/ NewSession \/ Clear \/ DeleteSession \/ ImportSession

Next == Start \/ EditByHand \/ Prompting \/ Thinking \/ Tooling

Spec == Init /\ [][Next]_vars

-----------------------------------------------------------------------------
(* Properties *)

TypeOK ==
  /\ pc \in {"off", "top", "read", "think", "tool", "confirm", "ask", "run", "panic"}
  /\ Len(msgs) <= MaxMessages /\ \A i \in 1..Len(msgs) : msgs[i] \in Roles
  /\ session \in Sessions \cup {NoSession}
  /\ \A i \in Stored : Len(disk[i]) <= Keep
  /\ mode \in Modes
  /\ todo \in 0..2 /\ tool \in Tools
  /\ reader.at \in {"gone", "key", "drain", "escape"}
  /\ stray.behind \in 0..left.stray
  /\ files \in Files

\* every call is followed by its results, but for those still to do
Paired(s, open) ==
  \A i \in 1..Len(s) :
    /\ s[i] = "result" => \E j \in 1..(i - 1) : j + Count(s[j]) >= i
    /\ \A k \in 1..Count(s[i]) :
         IF i + k <= Len(s) THEN s[i + k] = "result" ELSE i + k > Len(s) /\ open

(***************************************************************************)
(* What the model is shown next is a conversation it accepts: each result  *)
(* behind the call it belongs to, each call with its results, whatever was *)
(* denied, only planned, interrupted, or came from another session's file. *)
(* It is not, and stays so, once an error came behind a round of calls     *)
(* (tui.go:657 takes back a result, not the round) or a file was trimmed   *)
(* within a round (session.go:209).                                        *)
(***************************************************************************)
HistoryPaired ==
  cut \/ Paired(msgs, pc \in {"tool", "confirm", "ask", "run"})

(***************************************************************************)
(* Wherever a line can be read, and whenever the program has ended in any  *)
(* of its own ways, of which a signal and a panic are none, the            *)
(* conversation is in its session's file, up to what trimMessages drops,   *)
(* unless an import has replaced that file.  The writes of that file are   *)
(* taken to succeed: saveCurrentSession drops their errors (tui.go:196).   *)
(***************************************************************************)
ConversationKept ==
  pc \in {"top", "read"} \/ (pc = "off" /\ session # NoSession)
    => imported \/ disk[session] = Trim(msgs)

(***************************************************************************)
(* Each reader that a thinking left behind takes one refusal at most, be   *)
(* it in a later thinking, line, question or confirmation that it meets    *)
(* it.  A tool the person did not want runs if the n was so taken, and     *)
(* Enter alone approved; if an arrow was pressed before the n, or went up  *)
(* (tui.go:850); or if the keyboard could not be read (838): never         *)
(* otherwise, and none that needs approval runs without a box, but where   *)
(* there is no terminal to ask at (829).                                   *)
(***************************************************************************)
Slipped == box.slip # "none" \/ (box.wants = "skip" /\ box.stolen)

Unasked == \/ left.terminal = "none" \/ all \/ mode = "auto"
           \/ mode = "edit" /\ tool \notin IsExecTool

DenialKept ==
  /\ stray.lost + stray.waits + stray.drains <= stray.behind
  /\ pc \in {"run", "ask"} =>
       box.wants \in {"run", "all"} \/ Slipped \/ (box.wants = "none" /\ Unasked)

(***************************************************************************)
(* What a tool reported as remembered is in the agent's memory, and in its *)
(* file once a write succeeded, though two Memory objects write it; a      *)
(* write that failed goes unnoticed (memory.go:70), and what was           *)
(* remembered since is lost at the next start.  What a tool reported as    *)
(* set is in config.yml, unless that was ever cut off, or left in a form   *)
(* that does not parse, which the editing tools take for an empty file     *)
(* (extra_tools.go:199).                                                   *)
(***************************************************************************)
NothingForgotten ==
  /\ files.told \cap Keys \subseteq files.mine
  /\ files.saved => files.told \cap Keys \subseteq files.memory
  /\ files.config.form = "yaml" /\ ~files.broken
       => files.told \cap Sections \subseteq files.config.has
=============================================================================
