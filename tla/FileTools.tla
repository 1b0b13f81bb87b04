----------------------------- MODULE FileTools ------------------------------
(***************************************************************************)
(* The coding tools of an engineering worker (tool/definitions/code) on    *)
(* one file of its sandbox (sandbox/docker-sandbox.ts).  The tool calls of *)
(* one model step run in parallel.  A call is a chain of docker exec       *)
(* commands with an await between them: a file is read whole, changed in   *)
(* memory, and written back by a shell that truncates it first.            *)
(*                                                                         *)
(* A text is a sequence of tokens; a token stands for a string that a call *)
(* looks for or puts in.  Where calls write over each other the tokens     *)
(* count as equally long.                                                  *)
(***************************************************************************)
EXTENDS Integers, Sequences, FiniteSets, SequencesExt

CONSTANTS
  Tokens,     \* the strings of the file
  Match,      \* the string "$&", which String.replace reads as what it found,
  Ahead,      \* "$`" as all that is ahead of it,
  Behind,     \* "$'" as all that is behind it
  Escape,     \* and "$$" as
  Dollar,     \* "$"
  Meet,       \* how pairs read that make a pattern where they meet
  Nul,        \* zero bytes
  NoAnchor,   \* an insert without an anchor
  Calls,      \* tool calls that may be open at once
  Ops,        \* what a call may ask for
  Files,      \* what the file may be at first
  MaxStarts,  \* bound on calls
  MaxStops    \* bound on stops of the container

Text(s) == [there |-> TRUE, text |-> s]
NoFile  == [there |-> FALSE, text |-> <<>>]
Done(r) == [step |-> "idle", result |-> r]
Unknown == [known |-> FALSE]

Patterns   == {Match, Ahead, Behind, Escape}
FileStates == {NoFile} \union [there : {TRUE}, text : Seq(Tokens)]
Changes    == [old : Tokens, new : Tokens, all : BOOLEAN]

(* What the tools take: edit_file has one change, multi_edit several.  A bash  *)
(* command leaves the file as it likes, in its place or anew under its name.   *)
Operations ==
  [kind : {"look", "search"}]
    \union [kind : {"bash"}, leaves : FileStates, anew : BOOLEAN]
    \union [kind : {"write"}, text : Seq(Tokens), overwrite : BOOLEAN]
    \union [kind : {"edit"}, edits : Seq(Changes)]
    \union [kind : {"insert"}, anchor : Tokens \union {NoAnchor}, new : Tokens, before : BOOLEAN]

ASSUME ToolsAssumption ==
  /\ MaxStarts \in Nat /\ MaxStops \in Nat
  /\ Patterns \subseteq Tokens /\ {Dollar, Nul} \subseteq Tokens /\ NoAnchor \notin Tokens
  /\ \A p \in DOMAIN Meet :
       Meet[p] \in [front : Seq(Tokens), pattern : Patterns, rear : Seq(Tokens)]
  /\ Files \subseteq FileStates /\ Ops \subseteq Operations

VARIABLES
  file,     \* the file in the container
  up,       \* whether the container runs
  calls,    \* the state of each call: [step, op, plan], of the shell that writes
            \* [pos, linked], and history [undisturbed, before]
  starts,
  stops,
  last      \* history: the last call to empty the file, its text, and the texts of
            \* the calls that were writing then

vars == <<file, up, calls, starts, stops, last>>

Open(c) == calls[c].step # "idle"

-----------------------------------------------------------------------------
(* The texts the tools compute *)

Matches(s, t) == {i \in DOMAIN s : s[i] = t}

(* String.replace reads its patterns in the new string for the match at i. *)
Expansion(new, s, i) ==
  IF new = Match THEN <<s[i]>>
  ELSE IF new = Ahead THEN SubSeq(s, 1, i - 1)
  ELSE IF new = Behind THEN SubSeq(s, i + 1, Len(s))
  ELSE IF new = Escape THEN <<Dollar>>
  ELSE <<new>>

Spliced(s, i, new) == SubSeq(s, 1, i - 1) \o new \o SubSeq(s, i + 1, Len(s))

Agreed(s) == [ok |-> TRUE, text |-> s]

Refused == [ok |-> FALSE, text |-> <<>>]

(* One edit: the old string must occur, and once unless all are replaced.  Only *)
(* the latter is a split and a join, which puts the new string in as it stands. *)
Edit(s, e) ==
  LET found == Matches(s, e.old)
      i     == CHOOSE j \in found : TRUE
  IN  IF found = {} \/ (Cardinality(found) > 1 /\ ~e.all) THEN Refused
      ELSE IF e.all THEN Agreed([j \in DOMAIN s |-> IF j \in found THEN e.new ELSE s[j]])
      ELSE Agreed(Spliced(s, i, Expansion(e.new, s, i)))

(* Mutation of Edits: the edits that do not fit are left out. *)
EditsThatFit(s, edits) ==
  FoldLeft(LAMBDA r, e : IF Edit(r.text, e).ok THEN Edit(r.text, e) ELSE r, Agreed(s), edits)

(* The edits of one call, in order, in memory. *)
Edits(s, edits) ==
  LET after[k \in 0..Len(edits)] ==
        IF k = 0 THEN Agreed(s)
        ELSE IF after[k - 1].ok THEN Edit(after[k - 1].text, edits[k])
        ELSE after[k - 1]
  IN  after[Len(edits)]

(* Two strings that stand together, read for the match at i. *)
Together(pair, s, i) ==
  IF pair \in DOMAIN Meet
  THEN Meet[pair].front \o Expansion(Meet[pair].pattern, s, i) \o Meet[pair].rear
  ELSE Expansion(pair[1], s, i) \o Expansion(pair[2], s, i)

(* Without an anchor the text is appended or prepended; with one, the anchor is *)
(* replaced by the two together. *)
Insert(s, op) ==
  LET found == Matches(s, op.anchor)
      i     == CHOOSE j \in found : TRUE
      pair  == IF op.before THEN <<op.new, op.anchor>> ELSE <<op.anchor, op.new>>
  IN  IF op.anchor = NoAnchor THEN Agreed(IF op.before THEN <<op.new>> \o s ELSE Append(s, op.new))
      ELSE IF Cardinality(found) # 1 THEN Refused
      ELSE Agreed(Spliced(s, i, Together(pair, s, i)))

(* What a call decides, once it has seen the file or, for write_file, whether *)
(* there is one. *)
Decision(op, f) ==
  IF op.kind = "write" THEN IF f.there /\ ~op.overwrite THEN Refused ELSE Agreed(op.text)
  ELSE IF op.kind = "edit" THEN Edits(f.text, op.edits)
  ELSE Insert(f.text, op)

(* A shell writes the strings after p, up to q, at their places, whatever      *)
(* others have written there; what is missing ahead of them becomes zero bytes. *)
Overlay(new, p, q, old) ==
  [i \in 1..(IF q > Len(old) THEN q ELSE Len(old)) |->
     IF i \in (p + 1)..q THEN new[i] ELSE IF i <= Len(old) THEN old[i] ELSE Nul]

-----------------------------------------------------------------------------
Init ==
  /\ file \in Files
  /\ up = TRUE
  /\ calls = [c \in Calls |-> Done("none")]
  /\ starts = 0 /\ stops = 0
  /\ last = Unknown

Ends(c, r)   == calls' = [calls EXCEPT ![c] = Done(r)]
GoesOn(c, s) == calls' = [calls EXCEPT ![c].step = s]

(* A write_file whose test could not be run goes on as if there were no file. *)
Plans(c, text, seeing) ==
  calls' = [calls EXCEPT ![c].step = "making", ![c].plan = text, ![c].undisturbed = @ /\ seeing]

(* Call c goes on as k, and changes the file under the other open calls.  Those *)
(* that write keep hold of it unless it is gone or another file now. *)
Disturbs(c, k, same) ==
  calls' = [d \in Calls |->
              IF d = c THEN k
              ELSE IF Open(d) THEN [calls[d] EXCEPT !.undisturbed = FALSE, !.linked = @ /\ same]
              ELSE calls[d]]

Writing(c) == calls[c].step = "filling" /\ calls[c].linked

(* What is known of the last call to empty the file ends with a failure of it. *)
LastIfNot(C) ==
  IF last.known /\ last.by \in C /\ calls[last.by].step = "filling" THEN Unknown ELSE last

(* The model calls a tool. *)
Start(c, op) ==
  /\ ~Open(c)
  /\ starts < MaxStarts
  /\ starts' = starts + 1
  /\ calls' = [calls EXCEPT ![c] = [step |-> "asking", op |-> op, plan |-> <<>>, pos |-> 0,
                                    linked |-> FALSE, undisturbed |-> TRUE, before |-> file]]
  /\ UNCHANGED <<file, up, stops, last>>

(* read_file.  A command may fail for reasons of its own in a running container *)
(* and fails in one that does not run. *)
Look(c) ==
  /\ calls[c].step = "asking" /\ calls[c].op.kind = "look"
  /\ \/ up /\ file.there /\ Ends(c, "success")
     \/ Ends(c, "threw")
  /\ UNCHANGED <<file, up, starts, stops, last>>

(* list_dir, glob and grep: a command that fails has found nothing, which is a
   result. *)
Search(c) ==
  /\ calls[c].step = "asking" /\ calls[c].op.kind = "search"
  /\ Ends(c, "success")
  /\ UNCHANGED <<file, up, starts, stops, last>>

(* A bash command, taken as one step that rewrites the file or removes it.  It
   has no time limit, and its exit code is part of a successful result. *)
RunCommand(c) ==
  LET op == calls[c].op
  IN  /\ calls[c].step = "asking" /\ op.kind = "bash"
      /\ \/ /\ up
            /\ file' = op.leaves
            /\ last' = Unknown
            /\ Disturbs(c, Done("success"), op.leaves.there /\ ~op.anew)
         \/ Ends(c, "success") /\ UNCHANGED <<file, last>>
      /\ UNCHANGED <<up, starts, stops>>

(* The file is read, or asked after, by a command that runs or fails, and the
   rest is decided at once.  The shell of write_file that cannot run prints nothing,
   which is no "1". *)
Decide(c) ==
  \E runs \in {FALSE, up} :
    LET op   == calls[c].op
        seen == IF runs THEN file ELSE NoFile
        d    == Decision(op, seen)
    IN  /\ calls[c].step = "asking" /\ op.kind \in {"edit", "insert", "write"}
        /\ \/ op.kind # "write" /\ ~seen.there /\ Ends(c, "threw")
           \/ (op.kind = "write" \/ seen.there) /\ d.ok /\ Plans(c, d.text, runs)
           \/ (op.kind = "write" \/ seen.there) /\ ~d.ok /\ Ends(c, "refused")
        /\ UNCHANGED <<file, up, starts, stops, last>>

(* writeFile(): mkdir, whose outcome nobody looks at ... *)
MakeDirectory(c) ==
  /\ calls[c].step = "making"
  /\ GoesOn(c, "opening")
  /\ UNCHANGED <<file, up, starts, stops, last>>

(* The call and its text, with those of the calls that write the file by then. *)
Emptied(c) ==
  [known |-> TRUE, by |-> c, text |-> calls[c].plan,
   mixed |-> {calls[d].plan : d \in {b \in Calls : Writing(b)}}]

Filling(c) == [calls[c] EXCEPT !.step = "filling", !.linked = TRUE]

(* Mutation of Truncate: what was in the file stays. *)
OpenOnly(c) ==
  /\ calls[c].step = "opening"
  /\ \/ /\ up
        /\ file' = Text(file.text) /\ last' = Emptied(c) /\ Disturbs(c, Filling(c), TRUE)
     \/ Ends(c, "threw") /\ UNCHANGED <<file, last>>
  /\ UNCHANGED <<up, starts, stops>>

(* Mutation of Truncate: a command waits for the container. *)
TruncateOnceUp(c) ==
  /\ calls[c].step = "opening" /\ up
  /\ file' = Text(<<>>) /\ last' = Emptied(c) /\ Disturbs(c, Filling(c), TRUE)
  /\ UNCHANGED <<up, starts, stops>>

(* ... then the redirection empties the file or creates it ... *)
Truncate(c) ==
  /\ calls[c].step = "opening"
  /\ \/ /\ up
        /\ file' = Text(<<>>) /\ last' = Emptied(c) /\ Disturbs(c, Filling(c), TRUE)
     \/ Ends(c, "threw") /\ UNCHANGED <<file, last>>
  /\ UNCHANGED <<up, starts, stops>>

(* ... and cat fills it, a piece at a time.  What it writes to a file that was
   removed meanwhile is nowhere to be found. *)
Put(c) ==
  /\ calls[c].step = "filling"
  /\ \E q \in (calls[c].pos + 1)..Len(calls[c].plan) :
       LET k == [calls[c] EXCEPT !.pos = q]
       IN  IF calls[c].linked
           THEN /\ file' = Text(Overlay(calls[c].plan, calls[c].pos, q, file.text))
                /\ Disturbs(c, k, TRUE)
           ELSE calls' = [calls EXCEPT ![c] = k] /\ UNCHANGED file
  /\ UNCHANGED <<up, starts, stops, last>>

Close(c) ==
  /\ calls[c].step = "filling" /\ calls[c].pos = Len(calls[c].plan)
  /\ Ends(c, "success")
  /\ UNCHANGED <<file, up, starts, stops, last>>

(* The disk is full, say. *)
Breaks(c) ==
  /\ calls[c].step = "filling"
  /\ last' = LastIfNot({c})
  /\ Ends(c, "threw")
  /\ UNCHANGED <<file, up, starts, stops>>

(* docker stop, by the Auditor or the agent's own stop(), kills the commands
   that run in the container: a file being filled stays as it is. *)
StopContainer ==
  /\ up /\ stops < MaxStops
  /\ stops' = stops + 1
  /\ up' = FALSE
  /\ calls' = [c \in Calls |-> IF calls[c].step = "filling" THEN Done("threw") ELSE calls[c]]
  /\ last' = LastIfNot(Calls)
  /\ UNCHANGED <<file, starts>>

(* The next turn resumes it, with the file as it was left. *)
StartContainer ==
  /\ ~up
  /\ up' = TRUE
  /\ UNCHANGED <<file, calls, starts, stops, last>>

Progress(c) == \/ Look(c)
               \/ Search(c)
               \/ Decide(c)
               \/ MakeDirectory(c)
               \/ Truncate(c)
               \/ Put(c)
               \/ Close(c)

Next ==
  \/ \E c \in Calls : \/ \E op \in Ops : Start(c, op)
                      \/ RunCommand(c)
                      \/ Progress(c)
                      \/ Breaks(c)
  \/ StopContainer
  \/ StartContainer

Spec == Init /\ [][Next]_vars

(* Every command but one the model made up ends. *)
FairSpec == Spec /\ \A c \in Calls : WF_vars(Progress(c))

-----------------------------------------------------------------------------
(* The file is a text over the tokens, and an open call knows what it is at. *)
TypeOK ==
  /\ file \in FileStates /\ up \in BOOLEAN
  /\ last \in {Unknown} \union [known : {TRUE}, by : Calls, text : Seq(Tokens),
                                mixed : SUBSET Seq(Tokens)]
  /\ calls \in [Calls -> [step : {"idle"}, result : {"none", "success", "refused", "threw"}]
                           \union [step : {"asking", "making", "opening", "filling"}, op : Ops,
                                   plan : Seq(Tokens), pos : Nat, linked : BOOLEAN,
                                   undisturbed : BOOLEAN, before : FileStates]]
  /\ starts \in 0..MaxStarts /\ stops \in 0..MaxStops

(* What a tool says it does to a text.  Exactly the old strings are replaced by *)
(* exactly the new one. *)
Exactly(e, s, t) ==
  /\ DOMAIN t = DOMAIN s
  /\ \A i \in DOMAIN s : t[i] = IF s[i] = e.old THEN e.new ELSE s[i]

Fits(e, s) == LET n == Cardinality(Matches(s, e.old)) IN n = 1 \/ (n > 1 /\ e.all)

Edited(edits, s, t) ==
  \E via \in [0..Len(edits) -> [DOMAIN s -> Range(s) \union {edits[k].new : k \in DOMAIN edits}]] :
    /\ via[0] = s /\ via[Len(edits)] = t
    /\ \A k \in DOMAIN edits : Fits(edits[k], via[k - 1]) /\ Exactly(edits[k], via[k - 1], via[k])

Inserted(op, s, t) ==
  \E i \in 1..Len(t) :
    /\ t[i] = op.new /\ RemoveAt(t, i) = s
    /\ IF op.anchor = NoAnchor THEN i = (IF op.before THEN 1 ELSE Len(t))
       ELSE /\ Cardinality(Matches(s, op.anchor)) = 1
            /\ op.anchor = s[IF op.before THEN i ELSE i - 1]

Described(op, f, t) ==
  \/ op.kind = "write" /\ t = op.text /\ (f.there => op.overwrite)
  \/ op.kind = "edit" /\ f.there /\ Edited(op.edits, f.text, t)
  \/ op.kind = "insert" /\ f.there /\ Inserted(op, f.text, t)

(* What no description says: a pattern in the new string of a change to one     *)
(* match, or in what an anchored insert puts in the anchor's place, is read. *)
Literal(op) ==
  /\ op.kind = "edit" => \A k \in DOMAIN op.edits : op.edits[k].all \/ op.edits[k].new \notin Patterns
  /\ op.kind = "insert" /\ op.anchor # NoAnchor =>
       /\ {op.anchor, op.new} \cap Patterns = {}
       /\ {<<op.anchor, op.new>>, <<op.new, op.anchor>>} \cap DOMAIN Meet = {}

(* A call under which nobody changes the file does as it says, whatever else is *)
(* open, whether commands fail and whenever the container stops.  If it         *)
(* succeeds, the file has all of what its description says and nothing else,    *)
(* the several edits of a multi_edit included.  If it refuses, the file is as   *)
(* it was ("if any edit fails, none are applied").  If it throws, the file is   *)
(* as it was or has the beginning of what it would have had, for a shell that   *)
(* fails after it emptied the file leaves it there.  A write_file whose test    *)
(* for the file could not be run is not among these calls: it may overwrite.    *)
UndisturbedDoesAsSaid ==
  [][\A c \in Calls :
       LET call   == calls[c]
           result == calls'[c].result
       IN  Open(c) /\ ~Open(c)' /\ call.undisturbed /\ call.op.kind # "bash"
           => \/ /\ file' = call.before
                 /\ result = "success" => call.op.kind \in {"look", "search"}
              \/ /\ result # "refused" /\ call.op.kind \notin {"look", "search"}
                 /\ file'.there /\ IsPrefix(file'.text, call.plan)
                 /\ result = "success" => file'.text = call.plan
                 /\ Literal(call.op) => Described(call.op, call.before, call.plan)]_vars

(* A place of the file has what the last call to empty it has put there, or     *)
(* what a call that was writing at that moment has there; beyond what the last  *)
(* has put, zero bytes can stand where such a call has something. *)
Accounted(text, done) ==
  /\ Len(text) >= done
  /\ \A i \in DOMAIN text :
       \/ i <= done /\ text[i] = last.text[i]
       \/ \E t \in last.mixed : i \in DOMAIN t /\ (text[i] = t[i] \/ (i > done /\ text[i] = Nul))

(* Once the last call to empty the file has written its text, the file is at    *)
(* least as long, and only a call that was already writing when it emptied it   *)
(* can have mixed its own text in, each string at its own place.  With no such  *)
(* call the file has its text and nothing else, however many calls were open,   *)
(* failed or were killed before. *)
LastWriterIsWhole ==
  last.known /\ calls[last.by].step # "filling"
    => file.there /\ Accounted(file.text, Len(last.text))

(* Every call ends, through stops of the container too, unless it is a command  *)
(* the model made up. *)
CallsEnd == \A c \in Calls : Open(c) /\ calls[c].op.kind # "bash" ~> ~Open(c)

=============================================================================
