----------------------------- MODULE EraserClient -----------------------------
(***************************************************************************)
(* The desktop client bxr_eraser.c: one GTK thread whose handlers erase    *)
(* files, keep the local log Client_Log in SQLite and report to the        *)
(* Gooroom server.                                                         *)
(*                                                                         *)
(* A handler is not atomic.  While it overwrites a file, authenticates or  *)
(* waits for trim it runs gtk_main_iteration(), and every click handled    *)
(* there starts another handler on top of it.  All of them share the       *)
(* globals colcnt, dBl[], chk_method, auth_result and auth_cnt.  The call  *)
(* stack is the variable stack; only its head runs.                        *)
(*                                                                         *)
(* Of a log entry the model keeps file name, work and code; 3pass and      *)
(* 7pass are one work here ("pass"), their data is in FileEraser.          *)
(***************************************************************************)
EXTENDS LocalLog, Integers, Sequences

CONSTANTS
  Locked,     \* those access() refuses
  MaxClicks,  \* bound: clicks and launches
  MaxFaults,  \* bound: failures of SQLite, remove() and the process
  MaxExpire   \* bound: messages the Gooroom server answers with 4

ClientAssumption ==
  /\ TempFiles \subseteq Files
  /\ Locked \subseteq Files
  /\ MAX_CNT \in Nat \ {0}
  /\ {MaxClicks, MaxFaults, MaxExpire} \subseteq Nat

globals == <<dBl, colcnt, chk_method, auth_result, auth_cnt>>
history == <<clicks, faults, expiries, dbFaults, leaving, intruded, mixed>>
vars == <<proc, closed, quit, stack, globals, Client_Log, fileState, history>>

Blank == [name |-> NoName, work |-> "", code |-> ""]
NoEntries == [k \in 0..MAX_CNT |-> Blank]

Frame(op, file, pc, next) ==
  [op |-> op, file |-> file, pc |-> pc, next |-> next, todo |-> {}, deep |-> FALSE]

Top == Head(stack)
At(l) == stack # <<>> /\ Top.pc = l
Goto(l) == stack' = [stack EXCEPT ![1].pc = l]
Call(frame) == stack' = <<frame>> \o stack

Fault == faults < MaxFaults /\ faults' = faults + 1
DbFault == Fault /\ dbFaults' = dbFaults + 1
NoFault == UNCHANGED <<faults, dbFaults>>

(* The entry under preparation.                                            *)
Slot(e) == dBl' = [dBl EXCEPT ![colcnt] = e]
Prepare(work, code) ==
  Slot([name |-> dBl[colcnt].name, work |-> work, code |-> code])

Init ==
  /\ proc = "down"
  /\ closed = FALSE
  /\ quit = FALSE
  /\ stack = <<>>
  /\ dBl = NoEntries
  /\ colcnt = 1
  /\ chk_method = 0
  /\ auth_result = 0
  /\ auth_cnt = 0
  /\ Client_Log = <<>>
  /\ fileState = [f \in Files |-> "intact"]
  /\ clicks = 0
  /\ faults = 0
  /\ expiries = 0
  /\ dbFaults = 0
  /\ leaving = FALSE
  /\ intruded = FALSE
  /\ mixed = FALSE

-----------------------------------------------------------------------------
(* Start and end of the process.                                           *)

(* BXDB_Pop: dBl[1..] and colcnt are filled from the visible rows, one     *)
(* callback() after the other.                                             *)
Loaded(old) ==
  [k \in 0..MAX_CNT |->
     LET at == {i \in VisibleRows : Cardinality({j \in VisibleRows : j <= i}) = k}
     IN  IF at = {} THEN old[k] ELSE Client_Log[CHOOSE i \in at : TRUE].entry]

(* Mutant: colcnt is not reset before the rows are read.                   *)
Pop_NoReset(old) ==
  \/ /\ NoFault
     /\ colcnt' = Cardinality(VisibleRows) + colcnt
     /\ dBl' = Loaded(old)
  \/ /\ DbFault
     /\ colcnt' = 1
     /\ dBl' = old

Pop(old) ==
  \/ /\ NoFault
     /\ colcnt' = Cardinality(VisibleRows) + 1
     /\ dBl' = Loaded(old)
  \/ /\ DbFault
     /\ colcnt' = 1
     /\ dBl' = old

(* main() and func_chk_psname: the log is read, the window shown, and the  *)
(* start of the program authenticated and reported.                        *)
Launch ==
  /\ proc = "down"
  /\ clicks < MaxClicks
  /\ proc' = "starting"
  /\ \/ /\ NoFault
        /\ colcnt' = Cardinality(VisibleRows) + 1
        /\ dBl' = [Loaded(NoEntries) EXCEPT
                     ![Cardinality(VisibleRows) + 1] = [name |-> NoName, work |-> "start", code |-> "J000"]]
     \/ /\ DbFault
        /\ colcnt' = 1
        /\ dBl' = [NoEntries EXCEPT
                     ![1] = [name |-> NoName, work |-> "start", code |-> "J000"]]
  /\ Call(Frame("start", NoName, "auth", "done"))
  /\ clicks' = clicks + 1
  /\ UNCHANGED <<closed, quit, chk_method, auth_result, auth_cnt, Client_Log, fileState,
                 expiries, leaving, intruded, mixed>>

(* What dies with the process.                                             *)
Gone ==
  /\ proc' = "down"
  /\ stack' = <<>>
  /\ closed' = FALSE
  /\ quit' = FALSE
  /\ dBl' = NoEntries
  /\ colcnt' = 1
  /\ chk_method' = 0
  /\ auth_result' = 0
  /\ auth_cnt' = 0
  /\ UNCHANGED <<Client_Log, fileState>>

(* gtk_main returns.                                                       *)
MainLoopEnds ==
  /\ proc = "running"
  /\ stack = <<>>
  /\ quit
  /\ Gone
  /\ leaving' = FALSE
  /\ UNCHANGED <<clicks, faults, expiries, dbFaults, intruded, mixed>>

Crash ==
  /\ proc # "down"
  /\ Fault
  /\ Gone
  /\ leaving' = FALSE
  /\ UNCHANGED <<clicks, expiries, dbFaults, intruded, mixed>>

-----------------------------------------------------------------------------
(* Clicks.  They are handled by the main loop or by gtk_main_iteration()   *)
(* inside a running handler; at the start not before the window was drawn. *)
(* A confirmation dialog is modal: click and answer are one step.          *)

Listening ==
  /\ proc # "down"
  /\ clicks < MaxClicks
  /\ stack = <<>> => ~quit
  /\ stack # <<>> =>
       \/ Top.pc \in {"chunk", "trimming"}
       \/ Top.pc = "authed" /\ (Top.op = "start" => Top.deep)

Working(ops) == \E k \in DOMAIN stack : stack[k].op \in ops

Click ==
  /\ Listening
  /\ clicks' = clicks + 1
  /\ intruded' = (intruded \/ (At("authed") /\ Top.op \in {"pass", "temp", "trim"}))
  /\ UNCHANGED <<proc, expiries, auth_result, auth_cnt>>

(* on_btn_3pass_clicked, on_btn_7pass_clicked: chk_method and the file's   *)
(* name are set before the user is asked.                                  *)
PassClicked(f) ==
  /\ Click
  /\ ~closed
  /\ chk_method' = 1
  /\ mixed' = (mixed \/ Working({"temp"}))
  /\ \/ /\ Slot([dBl[colcnt] EXCEPT !.name = f])
        /\ UNCHANGED stack
     \/ /\ Slot([name |-> f, work |-> "pass", code |-> "J100"])
        /\ Call(Frame("pass", f, "push", "erase"))
  /\ UNCHANGED <<leaving, closed, quit, colcnt, Client_Log, fileState, faults, dbFaults>>

(* on_btn_temp_clicked.                                                    *)
TempClicked ==
  /\ Click
  /\ ~closed
  /\ chk_method' = 0
  /\ mixed' = (mixed \/ Working({"pass"}))
  /\ \/ /\ Slot([dBl[colcnt] EXCEPT !.name = NoName])
        /\ UNCHANGED stack
     \/ /\ Slot([name |-> NoName, work |-> "temp", code |-> "J100"])
        /\ Call([Frame("temp", NoName, "push", "scan") EXCEPT !.todo = TempFiles])
  /\ UNCHANGED <<leaving, closed, quit, colcnt, Client_Log, fileState, faults, dbFaults>>

(* on_btn_trim_clicked.                                                    *)
TrimClicked ==
  /\ Click
  /\ ~closed
  /\ \/ /\ Slot([dBl[colcnt] EXCEPT !.name = NoName])
        /\ UNCHANGED stack
     \/ /\ Slot([name |-> NoName, work |-> "trim", code |-> "J100"])
        /\ Call(Frame("trim", NoName, "push", "trim"))
  /\ UNCHANGED <<leaving, closed, quit, colcnt, chk_method, Client_Log, fileState, faults, dbFaults, mixed>>

(* on_smn_log_activate.                                                    *)
LogViewed ==
  /\ Click
  /\ ~closed
  /\ Pop(dBl)
  /\ UNCHANGED <<leaving, closed, quit, stack, chk_method, Client_Log, fileState, mixed>>

(* on_logviewer_clear_clicked and BXDB_Update: dBl is wiped and, once the  *)
(* database is open, colcnt reset, whether the UPDATE succeeds or not.     *)
LogCleared ==
  /\ Click
  /\ \/ /\ NoFault
        /\ Client_Log' = [k \in DOMAIN Client_Log |-> [Client_Log[k] EXCEPT !.flag = "D"]]
        /\ colcnt' = 1
     \/ DbFault /\ colcnt' \in {1, colcnt} /\ UNCHANGED Client_Log
  /\ dBl' = NoEntries
  /\ UNCHANGED <<leaving, closed, quit, stack, chk_method, fileState, mixed>>

(* on_window_main_destroy: the end is reported, then gtk_main_quit.  The   *)
(* menu's on_smn_quit_activate calls it too, but the window stays.         *)
WindowClosed ==
  /\ Click
  /\ ~closed
  /\ closed' \in BOOLEAN
  /\ leaving' = TRUE
  /\ Prepare("end", "J000")
  /\ Call(Frame("quit", NoName, "send", "quit"))
  /\ UNCHANGED <<quit, colcnt, chk_method, Client_Log, fileState, faults, dbFaults, mixed>>

-----------------------------------------------------------------------------
(* Steps of the running handler.                                           *)

Unmoved == UNCHANGED <<proc, closed, quit, clicks, leaving, intruded, mixed>>

(* BXDB_Push cannot open the database: nothing is sent, stored or counted. *)
PushUnopened ==
  /\ At("push")
  /\ DbFault
  /\ Goto(Top.next)
  /\ UNCHANGED <<globals, Client_Log, fileState, expiries>>
  /\ Unmoved

(* by is history: the handler that inserts.                                *)
Row(e) == [entry |-> e, flag |-> "N", by |-> Top.op]

(* INSERT of the entry at colcnt; colcnt grows even when it fails.         *)
Insert ==
  /\ \/ NoFault /\ Client_Log' = Append(Client_Log, Row(dBl[colcnt]))
     \/ DbFault /\ UNCHANGED Client_Log
  /\ colcnt' = colcnt + 1

Reports == Top.op \in {"start", "quit"}

(* Mutant: an entry that could not be reported is not stored either.       *)
Sent_OrDropped ==
  /\ At("push") \/ At("send")
  /\ IF Reports \/ auth_result # 0
     THEN UNCHANGED <<colcnt, Client_Log>> /\ NoFault
     ELSE Insert
  /\ Goto(Top.next)
  /\ UNCHANGED <<dBl, chk_method, auth_result, auth_cnt, fileState, expiries>>
  /\ Unmoved

(* func_api_gooroom sends the entry at colcnt - or does not, after a failed *)
(* authentication - and every answer but 4 lets BXDB_Push go on.           *)
Sent ==
  /\ At("push") \/ At("send")
  /\ IF Reports THEN UNCHANGED <<colcnt, Client_Log>> /\ NoFault ELSE Insert
  /\ Goto(Top.next)
  /\ UNCHANGED <<dBl, chk_method, auth_result, auth_cnt, fileState, expiries>>
  /\ Unmoved

(* Answer 4: authenticate again, then send again.                          *)
Expired ==
  /\ At("push") \/ At("send")
  /\ auth_result = 0
  /\ expiries < MaxExpire
  /\ expiries' = expiries + 1
  /\ stack' = [stack EXCEPT ![1].pc = "auth", ![1].deep = FALSE]
  /\ UNCHANGED <<globals, Client_Log, fileState, faults, dbFaults>>
  /\ Unmoved

(* func_auth_api_gooroom calls auth() and handles what events there are.   *)
Authenticate ==
  /\ At("auth")
  /\ auth_result' \in {0, 1}
  /\ Goto("authed")
  /\ UNCHANGED <<dBl, colcnt, chk_method, auth_cnt, Client_Log, fileState,
                 faults, dbFaults, expiries>>
  /\ Unmoved

(* The switch, on the global as it is now.  A retry is a call of itself;   *)
(* every level but the one that returns -1 resets auth_cnt.                *)
AuthDone ==
  /\ auth_result = 0
  /\ auth_cnt' = 0
  /\ Goto("send")
  /\ UNCHANGED auth_result

(* Mutant: the retries are not counted.                                    *)
AuthRetry_Uncounted ==
  /\ auth_result # 0
  /\ auth_cnt < 3
  /\ stack' = [stack EXCEPT ![1].pc = "auth", ![1].deep = TRUE]
  /\ UNCHANGED <<auth_result, auth_cnt>>

AuthRetry ==
  /\ auth_result # 0
  /\ auth_cnt < 3
  /\ auth_cnt' = auth_cnt + 1
  /\ stack' = [stack EXCEPT ![1].pc = "auth", ![1].deep = TRUE]
  /\ UNCHANGED auth_result

(* Out of retries: does the user want to go on?                            *)
AuthAsked ==
  /\ auth_result # 0
  /\ auth_cnt >= 3
  /\ Goto("send")
  /\ \/ auth_result' = 0 /\ auth_cnt' = 0
     \/ UNCHANGED auth_result /\ auth_cnt' = IF Top.deep THEN 0 ELSE auth_cnt

AuthSwitch ==
  /\ At("authed")
  /\ AuthDone \/ AuthRetry \/ AuthAsked
  /\ UNCHANGED <<dBl, colcnt, chk_method, Client_Log, fileState, faults, dbFaults, expiries>>
  /\ Unmoved

AfterFile == IF Top.op = "temp" THEN "scan" ELSE "done"
ThenPush == stack' = [stack EXCEPT ![1].pc = "push", ![1].next = AfterFile]

(* Mutant: the entry before is not copied (lines 1684 to 1687).            *)
Open_NotCopied ==
  /\ At("erase")
  /\ LET f == Top.file
         usable == f \notin Locked /\ fileState[f] \in {"intact", "cut"}
     IN  IF usable
         THEN /\ fileState' = [fileState EXCEPT ![f] = "cut"]
              /\ Goto("chunk")
              /\ UNCHANGED dBl
         ELSE /\ Slot([dBl[colcnt] EXCEPT !.code = "J001"])
              /\ ThenPush
              /\ UNCHANGED fileState
  /\ UNCHANGED <<colcnt, chk_method, auth_result, auth_cnt, Client_Log,
                 faults, dbFaults, expiries>>
  /\ Unmoved

(* func_file_eraser up to its loop: the new entry takes over the name and  *)
(* work of the one before, then access() and fopen("w"), which truncates.  *)
Open ==
  /\ At("erase")
  /\ LET f == Top.file
         usable == f \notin Locked /\ fileState[f] \in {"intact", "cut"}
         heir(code) == [name |-> dBl[colcnt - 1].name, work |-> dBl[colcnt - 1].work,
                        code |-> code]
     IN  IF usable
         THEN /\ Slot(heir(dBl[colcnt].code))
              /\ fileState' = [fileState EXCEPT ![f] = "cut"]
              /\ Goto("chunk")
         ELSE /\ Slot(heir("J001"))
              /\ ThenPush
              /\ UNCHANGED fileState
  /\ UNCHANGED <<colcnt, chk_method, auth_result, auth_cnt, Client_Log,
                 faults, dbFaults, expiries>>
  /\ Unmoved

(* Mutant: the result of remove() is not looked at.                        *)
Remove_Unchecked ==
  /\ At("chunk")
  /\ LET f == Top.file
     IN  /\ \/ fileState[f] = "cut" /\ UNCHANGED faults
               /\ fileState' = [fileState EXCEPT ![f] = "gone"]
            \/ fileState[f] = "cut" /\ Fault
               /\ fileState' \in {fileState, [fileState EXCEPT ![f] = "renamed"]}
            \/ fileState[f] # "cut" /\ UNCHANGED <<fileState, faults>>
         /\ IF chk_method = 0
            THEN UNCHANGED dBl /\ Goto(AfterFile)
            ELSE Slot([dBl[colcnt] EXCEPT !.name = f, !.code = "J000"]) /\ ThenPush
  /\ UNCHANGED <<colcnt, chk_method, auth_result, auth_cnt, Client_Log,
                 dbFaults, expiries>>
  /\ Unmoved

(* The loop is over: rename to a random name, remove (either can fail),    *)
(* and log the result unless chk_method - as it is now - says that these   *)
(* are temporary files.                                                    *)
Remove ==
  /\ At("chunk")
  /\ LET f == Top.file
         Result(code) == IF chk_method = 0
                         THEN UNCHANGED dBl /\ Goto(AfterFile)
                         ELSE /\ Slot([name |-> f, work |-> dBl[colcnt].work, code |-> code])
                              /\ ThenPush
     IN  \/ /\ fileState[f] = "cut"
            /\ fileState' = [fileState EXCEPT ![f] = "gone"]
            /\ Result("J000")
            /\ UNCHANGED faults
         \/ /\ fileState[f] = "cut"
            /\ Fault
            /\ fileState' \in {fileState, [fileState EXCEPT ![f] = "renamed"]}
            /\ Result("J004")
         \/ /\ fileState[f] # "cut"
            /\ Result("J004")
            /\ UNCHANGED <<fileState, faults>>
  /\ UNCHANGED <<colcnt, chk_method, auth_result, auth_cnt, Client_Log,
                 dbFaults, expiries>>
  /\ Unmoved

(* func_Detect over the temporary directories, in readdir's order.         *)
Scan ==
  /\ At("scan")
  /\ \E f \in Top.todo :
       stack' = [stack EXCEPT ![1].todo = @ \ {f},
                              ![1].file = f,
                              ![1].pc = IF fileState[f] \in {"intact", "cut"}
                                        THEN "erase" ELSE "scan"]
  /\ UNCHANGED <<globals, Client_Log, fileState, faults, dbFaults, expiries>>
  /\ Unmoved

Scanned ==
  /\ At("scan")
  /\ Top.todo = {}
  /\ Prepare("temp", "J000")
  /\ stack' = [stack EXCEPT ![1].pc = "push", ![1].next = "done"]
  /\ UNCHANGED <<colcnt, chk_method, auth_result, auth_cnt, Client_Log, fileState,
                 faults, dbFaults, expiries>>
  /\ Unmoved

(* trimchk has run; its one line of output is read, events are handled,    *)
(* and the line decides between J000 and J003.                             *)
Trim ==
  /\ At("trim")
  /\ Slot([dBl[colcnt] EXCEPT !.work = "trim"])
  /\ Goto("trimming")
  /\ UNCHANGED <<colcnt, chk_method, auth_result, auth_cnt, Client_Log, fileState,
                 faults, dbFaults, expiries>>
  /\ Unmoved

Trimmed ==
  /\ At("trimming")
  /\ \E code \in {"J000", "J003"} : Slot([dBl[colcnt] EXCEPT !.code = code])
  /\ stack' = [stack EXCEPT ![1].pc = "push", ![1].next = "done"]
  /\ UNCHANGED <<colcnt, chk_method, auth_result, auth_cnt, Client_Log, fileState,
                 faults, dbFaults, expiries>>
  /\ Unmoved

(* Mutant: gtk_main_quit only ends the innermost iteration.                *)
Return_QuitInner ==
  /\ stack # <<>>
  /\ Top.pc \in {"done", "quit"}
  /\ stack' = Tail(stack)
  /\ quit' = (quit \/ (Top.pc = "quit" /\ proc = "running" /\ Len(stack) = 1))
  /\ proc' = IF Top.op = "start" THEN "running" ELSE proc
  /\ UNCHANGED <<closed, globals, Client_Log, fileState, history>>

(* The handler returns to whoever ran it.  Closing ends the loop of        *)
(* gtk_main, if that has begun; after the start it begins.                 *)
Return ==
  /\ stack # <<>>
  /\ Top.pc \in {"done", "quit"}
  /\ stack' = Tail(stack)
  /\ quit' = (quit \/ (Top.pc = "quit" /\ proc = "running"))
  /\ proc' = IF Top.op = "start" THEN "running" ELSE proc
  /\ UNCHANGED <<closed, globals, Client_Log, fileState, history>>

Step ==
  \/ PushUnopened \/ Sent \/ Expired
  \/ Authenticate \/ AuthSwitch
  \/ Open \/ Remove \/ Scan \/ Scanned
  \/ Trim \/ Trimmed
  \/ Return \/ MainLoopEnds

User ==
  \/ \E f \in Files : PassClicked(f)
  \/ TempClicked \/ TrimClicked
  \/ LogViewed \/ LogCleared \/ WindowClosed

Next == Step \/ User \/ Launch \/ Crash

Spec == Init /\ [][Next]_vars

(* The thread runs, and whoever is asked in a dialog answers.              *)
Fairness == WF_vars(Step)

FairSpec == Spec /\ Fairness

-----------------------------------------------------------------------------
(* Properties.                                                             *)

(* Handlers return, whatever is clicked inside them.                       *)
HandlersReturn == []<>(stack = <<>>)

(* A quit once gtk_main runs ends the process, however deep in other      *)
(* handlers the click was handled.                                         *)
Quitting == proc = "running" /\ (quit \/ Working({"quit"}))
OrderlyClose == /\ []<>~Quitting
                /\ [][Quitting => Quitting' \/ proc' = "down"]_vars

(* "Do you really want to quit?" (line 562) answered with OK ends the      *)
(* program.                                                                *)
QuitEnds == leaving ~> proc = "down"

-----------------------------------------------------------------------------
(* Parts of the inductive invariants, for the proofs.                      *)

(* Nothing in the program keeps colcnt inside dBl[]: what is proved about  *)
(* the local log holds for as long as it stays there.                      *)
InArray == colcnt \in 0..MAX_CNT

(* Between preparing an entry and storing it.                              *)
Waiting == {"push", "send", "auth", "authed"}

(* Where handlers of each kind can be.                                     *)
InPlace(h) ==
  /\ h.op = "pass" => /\ h.pc \in Waiting \cup {"erase", "chunk", "done"}
                      /\ h.next \in {"erase", "done"}
                      /\ h.file \in Files
  /\ h.op = "temp" => /\ h.next \notin {"erase", "trim"}
                      /\ h.pc \in {"erase", "chunk"} => h.file \in TempFiles
  /\ h.op \in {"start", "quit", "trim"} => /\ h.pc \notin {"erase", "chunk", "scan"}
                                           /\ h.next \notin {"erase", "scan"}

StackShape ==
  /\ stack \in Seq(Frames)
  /\ \A k \in DOMAIN stack : InPlace(stack[k])
  /\ proc = "down" => stack = <<>>

LogShape ==
  /\ dBl = [k \in 0..MAX_CNT |-> dBl[k]]
  /\ Client_Log \in Seq({Client_Log[k] : k \in DOMAIN Client_Log})
  /\ \A k \in DOMAIN Client_Log :
       Client_Log[k] = [entry |-> Client_Log[k].entry, flag |-> Client_Log[k].flag,
                        by |-> Client_Log[k].by]
  /\ fileState \in [Files -> {"intact", "cut", "renamed", "gone"}]

HistoryShape == {faults, dbFaults} \subseteq Nat /\ {intruded, mixed} \subseteq BOOLEAN

(* Retries that were counted are those of an authentication in progress.   *)
RetriesOwned ==
  auth_cnt # 0 => \E k \in DOMAIN stack : stack[k].deep /\ stack[k].pc \in {"auth", "authed"}

(* Clicks are handled only inside the loop of an erasing, not while its    *)
(* entry waits to be stored.                                               *)
NestedInLoop ==
  ~intruded =>
    \A k \in DOMAIN stack : k > 1 /\ stack[k].op = "pass" => stack[k].pc = "chunk"

AtPass(places) == stack # <<>> /\ Top.op = "pass" /\ Top.pc \in places

(* Until it is stored, dBl[colcnt] holds what its handler prepared.        *)
FirstEntry ==
  ~intruded /\ AtPass(Waiting) /\ Top.next = "erase" =>
    dBl[colcnt] = [name |-> Top.file, work |-> "pass", code |-> "J100"]

LastEntry ==
  ~intruded /\ AtPass(Waiting) /\ Top.next = "done" /\ dBl[colcnt].code = "J000" =>
    fileState[dBl[colcnt].name] = "gone"

(* An erasing has its J100 entry before it touches the file.               *)
LoggedFirst ==
  dbFaults = 0 /\ ~intruded =>
    \A k \in DOMAIN stack :
      stack[k].op = "pass" /\ stack[k].pc \in {"erase", "chunk"} =>
        Rows(stack[k].file, {"J100"}) # {}

(* An erasing logs its end under the name it began with.                   *)
EndCodes == {"J000", "J001", "J004"}

Undisturbed == faults = 0 /\ ~intruded /\ ~mixed

EndNamed ==
  Undisturbed =>
    /\ AtPass({"erase"}) => dBl[colcnt - 1].name = Top.file
    /\ AtPass(Waiting) /\ Top.next = "done" =>
         dBl[colcnt].name = Top.file /\ dBl[colcnt].code \in EndCodes

MethodKept ==
  ~mixed /\ Working({"pass"}) => chk_method = 1

(* The erasings of f that are logged as started and not as ended, by their *)
(* depth in the stack, which a call or a return does not change.           *)
Ongoing(h, f) ==
  /\ h.op = "pass" /\ h.file = f
  /\ \/ h.pc \in {"erase", "chunk"}
     \/ h.pc \in Waiting /\ h.next = "done"

Unended(f) == {d \in 1..Len(stack) : Ongoing(stack[Len(stack) + 1 - d], f)}

Balanced ==
  Undisturbed =>
    \A f \in Files :
      Cardinality(Rows(f, {"J100"})) = Cardinality(Rows(f, EndCodes)) + Cardinality(Unended(f))

=============================================================================
