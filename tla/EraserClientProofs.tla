-------------------------- MODULE EraserClientProofs --------------------------
(***************************************************************************)
(* Theorems about the desktop client.  About EraserClient: what the local  *)
(* log promises about erased files, that every authentication begins with  *)
(* all its retries, and that colcnt counts the rows of the table, for any  *)
(* number of files, clicks, handlers inside handlers and failures.  About  *)
(* FileEraser: what becomes of the data, for files, blocks and disks of    *)
(* every size.                                                             *)
(***************************************************************************)
EXTENDS EraserClient, FileState, FiniteSetTheorems, SequenceTheorems, TLAPS

-----------------------------------------------------------------------------
(* The stack of handlers.                                                  *)

LEMMA TopFacts ==
  ASSUME stack \in Seq(Frames), stack # <<>>
  PROVE  /\ Len(stack) \in Nat \ {0} /\ DOMAIN stack = 1..Len(stack)
         /\ 1 \in DOMAIN stack /\ Top = stack[1] /\ Top \in Frames
  BY HeadTailProperties, LenProperties, EmptySeq DEF Top

(* The running handler goes on.                                            *)
Moved(h) == stack # <<>> /\ h \in Frames /\ stack' = [stack EXCEPT ![1] = h]

LEMMA MovedFacts ==
  ASSUME stack \in Seq(Frames), NEW h, Moved(h)
  PROVE  /\ stack' \in Seq(Frames) /\ stack' # <<>> /\ Top' = h
         /\ Len(stack') = Len(stack) /\ DOMAIN stack' = DOMAIN stack
         /\ stack'[1] = h
         /\ \A k \in DOMAIN stack : k # 1 => stack'[k] = stack[k]
<1>1. 1 \in 1..Len(stack) /\ h \in Frames /\ DOMAIN stack = 1..Len(stack)
  BY TopFacts DEF Moved
<1>2. /\ stack' \in Seq(Frames) /\ Len(stack') = Len(stack)
      /\ \A k \in 1..Len(stack) : stack'[k] = IF k = 1 THEN h ELSE stack[k]
  BY <1>1, ExceptSeq DEF Moved
<1>3. stack' # <<>>
  BY <1>1, <1>2, EmptySeq
<1>4. Top' = stack'[1] /\ DOMAIN stack' = 1..Len(stack')
  BY <1>2, <1>3, HeadTailProperties, LenProperties DEF Top
<1> QED
  BY <1>1, <1>2, <1>3, <1>4

(* A handler is called.                                                    *)
LEMMA CallFacts ==
  ASSUME stack \in Seq(Frames), NEW h \in Frames, Call(h)
  PROVE  /\ stack' \in Seq(Frames) /\ stack' # <<>> /\ Top' = h
         /\ Len(stack') = Len(stack) + 1 /\ Len(stack) \in Nat
         /\ DOMAIN stack = 1..Len(stack) /\ DOMAIN stack' = 1..Len(stack')
         /\ stack'[1] = h
         /\ \A k \in DOMAIN stack : stack'[k + 1] = stack[k]
         /\ \A k \in DOMAIN stack' : k # 1 => k - 1 \in DOMAIN stack /\ stack'[k] = stack[k - 1]
<1>1. <<h>> \in Seq(Frames) /\ Len(<<h>>) = 1 /\ <<h>>[1] = h
  OBVIOUS
<1>2. Len(stack) \in Nat /\ DOMAIN stack = 1..Len(stack)
  BY LenProperties
<1>3. /\ stack' \in Seq(Frames) /\ Len(stack') = Len(stack) + 1
      /\ \A k \in 1..Len(stack') : stack'[k] = IF k <= 1 THEN <<h>>[k] ELSE stack[k - 1]
  BY <1>1, <1>2, ConcatProperties DEF Call
<1>4. DOMAIN stack' = 1..Len(stack')
  BY <1>3, LenProperties
<1>5. stack' # <<>> /\ stack'[1] = h
  BY <1>1, <1>2, <1>3, EmptySeq
<1>6. Top' = h
  BY <1>3, <1>5, HeadTailProperties DEF Top
<1>7. \A k \in DOMAIN stack' : k # 1 => k - 1 \in DOMAIN stack /\ stack'[k] = stack[k - 1]
  BY <1>2, <1>3, <1>4
<1>8. \A k \in DOMAIN stack : stack'[k + 1] = stack[k]
  BY <1>2, <1>3
<1> QED
  BY <1>2, <1>3, <1>4, <1>5, <1>6, <1>7, <1>8

(* A handler returns.                                                      *)
LEMMA TailFacts ==
  ASSUME stack \in Seq(Frames), stack # <<>>, stack' = Tail(stack)
  PROVE  /\ stack' \in Seq(Frames) /\ Len(stack') = Len(stack) - 1
         /\ DOMAIN stack = 1..Len(stack) /\ DOMAIN stack' = 1..Len(stack')
         /\ Len(stack) \in Nat \ {0}
         /\ \A k \in DOMAIN stack' : k + 1 \in DOMAIN stack /\ stack'[k] = stack[k + 1]
<1>1. /\ stack' \in Seq(Frames) /\ Len(stack') = Len(stack) - 1
      /\ \A k \in 1..Len(stack') : stack'[k] = stack[k + 1]
  BY HeadTailProperties
<1> QED
  BY <1>1, TopFacts, LenProperties

-----------------------------------------------------------------------------
(* Where a step of the running handler takes it.                           *)

Places == {"push", "send", "auth", "authed", "erase", "chunk", "scan", "trim", "trimming",
           "done", "quit"}

LEMMA GotoMoves ==
  ASSUME stack \in Seq(Frames), stack # <<>>, NEW l \in Places, Goto(l)
  PROVE  Moved([Top EXCEPT !.pc = l])
  BY TopFacts DEF Goto, Moved, Frames, Places

LEMMA PushMoves ==
  ASSUME stack \in Seq(Frames), stack # <<>>, NEW n \in {"scan", "done"},
         stack' = [stack EXCEPT ![1].pc = "push", ![1].next = n]
  PROVE  Moved([Top EXCEPT !.pc = "push", !.next = n])
  BY TopFacts DEF Moved, Frames

LEMMA AuthMoves ==
  ASSUME stack \in Seq(Frames), stack # <<>>, NEW b \in BOOLEAN,
         stack' = [stack EXCEPT ![1].pc = "auth", ![1].deep = b]
  PROVE  Moved([Top EXCEPT !.pc = "auth", !.deep = b])
  BY TopFacts DEF Moved, Frames

(* What the steps of func_file_eraser do to the stack.                     *)
LEMMA AfterMoves ==
  ASSUME stack \in Seq(Frames), stack # <<>>
  PROVE  /\ ThenPush => Moved([Top EXCEPT !.pc = "push", !.next = AfterFile])
         /\ Goto(AfterFile) => Moved([Top EXCEPT !.pc = AfterFile])
<1>1. AfterFile \in {"scan", "done"}
  BY DEF AfterFile
<1>2. AfterFile \in Places
  BY <1>1 DEF Places
<1> QED
  BY <1>1, <1>2, PushMoves, GotoMoves DEF ThenPush

LEMMA ScanMoves ==
  ASSUME ClientAssumption, stack \in Seq(Frames), stack # <<>>, Scan
  PROVE  \E f \in TempFiles : \E l \in {"erase", "scan"} :
           Moved([Top EXCEPT !.todo = @ \ {f}, !.file = f, !.pc = l])
<1>1. PICK f \in Top.todo :
        stack' = [stack EXCEPT ![1].todo = @ \ {f}, ![1].file = f,
                               ![1].pc = IF fileState[f] \in {"intact", "cut"}
                                         THEN "erase" ELSE "scan"]
  BY DEF Scan
<1> DEFINE l == IF fileState[f] \in {"intact", "cut"} THEN "erase" ELSE "scan"
           h == [Top EXCEPT !.todo = @ \ {f}, !.file = f, !.pc = l]
<1>2. f \in TempFiles /\ f \in Files /\ Top \in Frames /\ Top = stack[1] /\ 1 \in DOMAIN stack
  BY TopFacts DEF Frames, ClientAssumption
<1>3. l \in {"erase", "scan"}
  OBVIOUS
<1>4. h \in Frames
  BY <1>2 DEF Frames
<1>5. stack' = [stack EXCEPT ![1] = h]
  BY <1>1, <1>2
<1>6. Moved(h)
  BY <1>4, <1>5 DEF Moved
<1> QED
  BY <1>2, <1>3, <1>6

(* The steps that leave the running handler where the stack has it.        *)
Moves ==
  \/ PushUnopened \/ Sent \/ Expired \/ Authenticate \/ AuthSwitch
  \/ Open \/ Remove \/ Scan \/ Scanned \/ Trim \/ Trimmed

(* Such a step takes the running handler on, as what it is.                *)
LEMMA MovesTop ==
  ASSUME ClientAssumption, StackShape, Moves
  PROVE  \E h \in Frames : /\ Moved(h) /\ InPlace(h) /\ h.op = Top.op
                           /\ h.op = "pass" => h.file = Top.file
<1>1. stack # <<>>
  BY DEF Moves, PushUnopened, Sent, Expired, Authenticate, AuthSwitch, Open, Remove, Scan,
         Scanned, Trim, Trimmed, At
<1>2. Top \in Frames /\ InPlace(Top) /\ stack \in Seq(Frames)
  BY <1>1, TopFacts DEF StackShape
<1> SUFFICES ASSUME \A h : Moved(h) /\ InPlace(h) /\ h.op = Top.op
                             /\ (h.op = "pass" => h.file = Top.file) => FALSE
             PROVE  FALSE
  BY DEF Moved
<1>3. CASE PushUnopened \/ Sent
  <2> DEFINE h == [Top EXCEPT !.pc = Top.next]
  <2>1. Top.next \in Places /\ Goto(Top.next) /\ Top.pc \in {"push", "send"}
    BY <1>2, <1>3 DEF PushUnopened, Sent, Frames, Places, At
  <2>2. Moved(h)
    BY <1>1, <1>2, <2>1, GotoMoves
  <2>3. InPlace(h) /\ h.op = Top.op /\ h.file = Top.file
    BY <1>2, <2>1 DEF InPlace, Frames, Waiting
  <2> QED
    BY <2>2, <2>3
<1>4. CASE Expired
  <2> DEFINE h == [Top EXCEPT !.pc = "auth", !.deep = FALSE]
  <2>1. Moved(h) /\ Top.pc \in {"push", "send"}
    BY <1>1, <1>2, <1>4, AuthMoves DEF Expired, At
  <2>2. InPlace(h) /\ h.op = Top.op /\ h.file = Top.file
    BY <1>2, <2>1 DEF InPlace, Frames, Waiting
  <2> QED
    BY <2>1, <2>2
<1>5. CASE Authenticate
  <2> DEFINE h == [Top EXCEPT !.pc = "authed"]
  <2>1. Moved(h) /\ Top.pc = "auth"
    BY <1>1, <1>2, <1>5, GotoMoves DEF Authenticate, At, Places
  <2>2. InPlace(h) /\ h.op = Top.op /\ h.file = Top.file
    BY <1>2, <2>1 DEF InPlace, Frames, Waiting
  <2> QED
    BY <2>1, <2>2
<1>6. CASE AuthSwitch
  <2>1. Top.pc = "authed"
    BY <1>6 DEF AuthSwitch, At
  <2>2. CASE AuthDone \/ AuthAsked
    <3> DEFINE h == [Top EXCEPT !.pc = "send"]
    <3>1. Moved(h)
      BY <1>1, <1>2, <2>2, GotoMoves DEF AuthDone, AuthAsked, Places
    <3>2. InPlace(h) /\ h.op = Top.op /\ h.file = Top.file
      BY <1>2, <2>1 DEF InPlace, Frames, Waiting
    <3> QED
      BY <3>1, <3>2
  <2>3. CASE AuthRetry
    <3> DEFINE h == [Top EXCEPT !.pc = "auth", !.deep = TRUE]
    <3>1. Moved(h)
      BY <1>1, <1>2, <2>3, AuthMoves DEF AuthRetry
    <3>2. InPlace(h) /\ h.op = Top.op /\ h.file = Top.file
      BY <1>2, <2>1 DEF InPlace, Frames, Waiting
    <3> QED
      BY <3>1, <3>2
  <2> QED
    BY <1>6, <2>2, <2>3 DEF AuthSwitch
<1>7. CASE Open \/ Remove
  <2>1. Top.pc \in {"erase", "chunk"} /\ (Goto("chunk") \/ ThenPush \/ Goto(AfterFile))
    BY <1>7 DEF Open, Remove, At
  <2>2. Top.op \in {"pass", "temp"}
    BY <1>2, <2>1 DEF InPlace, Frames
  <2> DEFINE g(l) == [Top EXCEPT !.pc = l]
             p == [Top EXCEPT !.pc = "push", !.next = AfterFile]
  <2>3. Moved(g("chunk")) \/ Moved(p) \/ Moved(g(AfterFile))
    BY <1>1, <1>2, <2>1, GotoMoves, AfterMoves DEF Places
  <2>4. /\ InPlace(g("chunk")) /\ g("chunk").op = Top.op /\ g("chunk").file = Top.file
        /\ InPlace(p) /\ p.op = Top.op /\ p.file = Top.file
        /\ InPlace(g(AfterFile)) /\ g(AfterFile).op = Top.op /\ g(AfterFile).file = Top.file
    BY <1>2, <2>1, <2>2 DEF InPlace, Frames, Waiting, AfterFile
  <2> QED
    BY <2>3, <2>4
<1>8. CASE Scan
  <2>1. Top.pc = "scan" /\ Top.op \notin {"pass", "start", "quit", "trim"}
    BY <1>2, <1>8 DEF Scan, At, InPlace, Waiting
  <2>2. PICK f \in TempFiles, l \in {"erase", "scan"} :
          Moved([Top EXCEPT !.todo = @ \ {f}, !.file = f, !.pc = l])
    BY <1>1, <1>2, <1>8, ScanMoves
  <2> DEFINE h == [Top EXCEPT !.todo = @ \ {f}, !.file = f, !.pc = l]
  <2>3. InPlace(h) /\ h.op = Top.op /\ h.op # "pass"
    BY <1>2, <2>1 DEF InPlace, Frames, Waiting
  <2> QED
    BY <2>2, <2>3
<1>9. CASE Scanned \/ Trimmed
  <2> DEFINE h == [Top EXCEPT !.pc = "push", !.next = "done"]
  <2>1. Moved(h) /\ Top.pc \in {"scan", "trimming"}
    BY <1>1, <1>2, <1>9, PushMoves DEF Scanned, Trimmed, At
  <2>2. InPlace(h) /\ h.op = Top.op /\ h.op # "pass"
    BY <1>2, <2>1 DEF InPlace, Frames, Waiting
  <2> QED
    BY <2>1, <2>2
<1>10. CASE Trim
  <2> DEFINE h == [Top EXCEPT !.pc = "trimming"]
  <2>1. Moved(h) /\ Top.pc = "trim"
    BY <1>1, <1>2, <1>10, GotoMoves DEF Trim, At, Places
  <2>2. InPlace(h) /\ h.op = Top.op /\ h.op # "pass"
    BY <1>2, <2>1 DEF InPlace, Frames, Waiting
  <2> QED
    BY <2>1, <2>2
<1> QED
  BY <1>3, <1>4, <1>5, <1>6, <1>7, <1>8, <1>9, <1>10 DEF Moves

-----------------------------------------------------------------------------
(* The shape of the stack is kept.                                         *)

(* A handler that begins.                                                  *)
Begins(h) ==
  /\ h \in Frames /\ InPlace(h) /\ Call(h)
  /\ ~h.deep /\ h.pc \in {"push", "send"}

(* A click is dropped by the dialog, handled at once, or begins a handler; *)
(* it comes while the program runs.                                        *)
LEMMA UserCalls ==
  ASSUME ClientAssumption, User
  PROVE  /\ proc' = proc /\ proc # "down"
         /\ UNCHANGED stack \/ \E h : Begins(h)
<1>1. proc' = proc /\ proc # "down"
  BY DEF User, PassClicked, TempClicked, TrimClicked, LogViewed, LogCleared, WindowClosed,
         Click, Listening
<1> SUFFICES ASSUME stack' # stack PROVE \E h : Begins(h)
  BY <1>1
<1>2. CASE \E f \in Files : PassClicked(f)
  <2>1. PICK f \in Files : PassClicked(f)
    BY <1>2
  <2> DEFINE h == Frame("pass", f, "push", "erase")
  <2>2. Call(h)
    BY <2>1 DEF PassClicked
  <2>3. h \in Frames /\ InPlace(h) /\ ~h.deep /\ h.pc = "push"
    BY DEF Frame, Frames, InPlace, Waiting
  <2> QED
    BY <2>2, <2>3 DEF Begins
<1>3. CASE TempClicked
  <2> DEFINE h == [Frame("temp", NoName, "push", "scan") EXCEPT !.todo = TempFiles]
  <2>1. Call(h)
    BY <1>3 DEF TempClicked
  <2>2. h \in Frames /\ InPlace(h) /\ ~h.deep /\ h.pc = "push"
    BY DEF Frame, Frames, InPlace, NoName
  <2> QED
    BY <2>1, <2>2 DEF Begins
<1>4. CASE TrimClicked
  <2> DEFINE h == Frame("trim", NoName, "push", "trim")
  <2>1. Call(h)
    BY <1>4 DEF TrimClicked
  <2>2. h \in Frames /\ InPlace(h) /\ ~h.deep /\ h.pc = "push"
    BY DEF Frame, Frames, InPlace, NoName
  <2> QED
    BY <2>1, <2>2 DEF Begins
<1>5. CASE WindowClosed
  <2> DEFINE h == Frame("quit", NoName, "send", "quit")
  <2>1. Call(h)
    BY <1>5 DEF WindowClosed
  <2>2. h \in Frames /\ InPlace(h) /\ ~h.deep /\ h.pc = "send"
    BY DEF Frame, Frames, InPlace, NoName
  <2> QED
    BY <2>1, <2>2 DEF Begins
<1>6. CASE LogViewed \/ LogCleared
  BY <1>6 DEF LogViewed, LogCleared
<1> QED
  BY <1>2, <1>3, <1>4, <1>5, <1>6 DEF User

(* The start of the program is a handler of its own.                       *)
LEMMA LaunchCalls ==
  ASSUME ClientAssumption, Launch
  PROVE  Call(Frame("start", NoName, "auth", "done"))
         /\ Frame("start", NoName, "auth", "done") \in Frames
         /\ InPlace(Frame("start", NoName, "auth", "done"))
  BY DEF Launch, Frame, Frames, InPlace, NoName

LEMMA CallShape ==
  ASSUME StackShape, NEW h \in Frames, InPlace(h), Call(h), proc' # "down"
  PROVE  StackShape'
<1>1. \A k \in DOMAIN stack' : InPlace(stack'[k])
  BY CallFacts DEF StackShape
<1> QED
  BY <1>1, CallFacts DEF StackShape, InPlace, Waiting

(* Every step keeps the handlers in their places.                          *)
LEMMA ShapeNext == ClientAssumption /\ StackShape /\ [Next]_vars => StackShape'
<1> SUFFICES ASSUME ClientAssumption, StackShape, [Next]_vars PROVE StackShape'
  OBVIOUS
<1>1. CASE Moves
  <2>1. PICK h \in Frames : Moved(h) /\ InPlace(h)
    BY <1>1, MovesTop
  <2>2. \A k \in DOMAIN stack' : InPlace(stack'[k])
    BY <2>1, MovedFacts DEF StackShape
  <2>3. stack # <<>> /\ proc' = proc
    BY <1>1, <2>1 DEF Moved, Moves, PushUnopened, Sent, Expired, Authenticate, AuthSwitch,
       Open, Remove, Scan, Scanned, Trim, Trimmed, Unmoved
  <2> QED
    BY <2>1, <2>2, <2>3, MovedFacts DEF StackShape, InPlace, Waiting
<1>2. CASE Return
  <2>1. \A k \in DOMAIN stack' : InPlace(stack'[k])
    BY <1>2, TailFacts DEF Return, StackShape
  <2>2. proc # "down" /\ proc' # "down"
    BY <1>2 DEF Return, StackShape
  <2> QED
    BY <1>2, <2>1, <2>2, TailFacts DEF Return, StackShape, InPlace, Waiting
<1>3. CASE MainLoopEnds \/ Crash
  <2>1. stack' = <<>>
    BY <1>3 DEF MainLoopEnds, Crash, Gone
  <2> QED
    BY <2>1, EmptySeq DEF StackShape
<1>4. CASE User
  <2>1. proc' = proc /\ proc # "down"
    BY <1>4, UserCalls
  <2>2. CASE UNCHANGED stack
    BY <2>1, <2>2 DEF StackShape, InPlace, Waiting
  <2>3. CASE \E h : Begins(h)
    BY <2>1, <2>3, CallShape DEF Begins
  <2> QED
    BY <1>4, <2>2, <2>3, UserCalls
<1>5. CASE Launch
  <2>1. proc' # "down"
    BY <1>5 DEF Launch
  <2> QED
    BY <1>5, <2>1, LaunchCalls, CallShape
<1>6. CASE UNCHANGED vars
  BY <1>6 DEF vars, StackShape, InPlace, Waiting
<1> QED
  BY <1>1, <1>2, <1>3, <1>4, <1>5, <1>6 DEF Next, Step, Moves

LEMMA ShapeInit == Init => StackShape
<1> SUFFICES ASSUME Init PROVE StackShape
  OBVIOUS
<1>1. stack = <<>>
  BY DEF Init
<1> QED
  BY <1>1, EmptySeq DEF StackShape

LEMMA ShapeKept == ASSUME ClientAssumption PROVE Spec => []StackShape
  BY ShapeInit, ShapeNext, PTL DEF Spec

-----------------------------------------------------------------------------
(* The retries of an authentication.                                       *)

LEMMA RetriesNext == ClientAssumption /\ StackShape /\ RetriesOwned /\ [Next]_vars => RetriesOwned'
<1> SUFFICES ASSUME ClientAssumption, StackShape, RetriesOwned, [Next]_vars,
                    auth_cnt' # 0
             PROVE  \E k \in DOMAIN stack' : stack'[k].deep /\ stack'[k].pc \in {"auth", "authed"}
  BY DEF RetriesOwned
<1> DEFINE Owner(h) == h.deep /\ h.pc \in {"auth", "authed"}
<1>1. stack \in Seq(Frames)
  BY DEF StackShape
<1>2. ASSUME auth_cnt' = auth_cnt PROVE \E k \in DOMAIN stack : Owner(stack[k])
  BY <1>2 DEF RetriesOwned
<1>3. ASSUME stack # <<>> PROVE stack \in Seq(Frames) /\ Top = stack[1] /\ Top \in Frames /\ 1 \in DOMAIN stack
  BY <1>1, <1>3, TopFacts
(* Who is not the running handler still waits.                             *)
<1>4. ASSUME NEW k \in DOMAIN stack, Owner(stack[k]), k # 1, NEW h, Moved(h)
      PROVE  \E j \in DOMAIN stack' : Owner(stack'[j])
  BY <1>1, <1>4, MovedFacts
<1>5. CASE Moves
  <2>1. PICK h \in Frames : Moved(h)
    BY <1>5, MovesTop
  <2>2. stack # <<>>
    BY <2>1 DEF Moved
  <2>3. CASE ~Authenticate /\ ~AuthSwitch
    <3>1. auth_cnt' = auth_cnt /\ Top.pc \notin {"auth", "authed"}
      BY <1>5, <2>3 DEF Moves, PushUnopened, Sent, Expired, Open, Remove, Scan, Scanned, Trim,
         Trimmed, At, globals
    <3>2. PICK k \in DOMAIN stack : Owner(stack[k])
      BY <1>2, <3>1
    <3>3. k # 1
      BY <1>3, <2>2, <3>1, <3>2
    <3> QED
      BY <1>4, <2>1, <3>2, <3>3
  <2>4. CASE Authenticate
    <3>1. auth_cnt' = auth_cnt
      BY <2>4 DEF Authenticate
    <3>2. PICK k \in DOMAIN stack : Owner(stack[k])
      BY <1>2, <3>1
    <3>3. CASE k # 1
      BY <1>4, <2>1, <3>2, <3>3
    <3>4. CASE k = 1
      <4> DEFINE g == [Top EXCEPT !.pc = "authed"]
      <4>1. Moved(g)
        BY <1>1, <2>2, <2>4, GotoMoves DEF Authenticate, Places
      <4>2. Owner(g)
        BY <1>3, <2>2, <3>2, <3>4 DEF Frames
      <4> QED
        BY <1>1, <1>3, <2>2, <4>1, <4>2, MovedFacts
    <3> QED
      BY <3>3, <3>4
  <2>5. CASE AuthSwitch
    <3>1. CASE AuthRetry
      <4> DEFINE g == [Top EXCEPT !.pc = "auth", !.deep = TRUE]
      <4>1. Moved(g)
        BY <1>1, <2>2, <3>1, AuthMoves DEF AuthRetry
      <4>2. Owner(g)
        BY <1>3, <2>2 DEF Frames
      <4> QED
        BY <1>1, <1>3, <2>2, <4>1, <4>2, MovedFacts
    <3>2. CASE AuthAsked
      <4>1. auth_cnt' = auth_cnt /\ ~Top.deep
        BY <3>2 DEF AuthAsked
      <4>2. PICK k \in DOMAIN stack : Owner(stack[k])
        BY <1>2, <4>1
      <4>3. k # 1
        BY <1>3, <2>2, <4>1, <4>2
      <4> QED
        BY <1>4, <2>1, <4>2, <4>3
    <3>3. ~AuthDone
      BY DEF AuthDone
    <3> QED
      BY <2>5, <3>1, <3>2, <3>3 DEF AuthSwitch
  <2> QED
    BY <2>3, <2>4, <2>5
<1>6. CASE Return
  <2>1. auth_cnt' = auth_cnt /\ stack # <<>> /\ Top.pc \notin {"auth", "authed"} /\ stack' = Tail(stack)
    BY <1>6 DEF Return, globals
  <2>2. PICK k \in DOMAIN stack : Owner(stack[k])
    BY <1>2, <2>1
  <2>3. k # 1
    BY <1>3, <2>1, <2>2
  <2>4. k - 1 \in DOMAIN stack' /\ stack'[k - 1] = stack[k]
    BY <1>1, <2>1, <2>3, TailFacts
  <2> QED
    BY <2>2, <2>4
<1>7. CASE MainLoopEnds \/ Crash
  BY <1>7 DEF MainLoopEnds, Crash, Gone
<1>8. CASE User \/ Launch
  <2>1. auth_cnt' = auth_cnt
    BY <1>8 DEF User, Launch, PassClicked, TempClicked, TrimClicked, LogViewed, LogCleared,
       WindowClosed, Click
  <2>2. PICK k \in DOMAIN stack : Owner(stack[k])
    BY <1>2, <2>1
  <2>3. stack' = stack \/ \E h \in Frames : Call(h)
    BY <1>8, UserCalls, LaunchCalls DEF Begins
  <2>4. ASSUME NEW h \in Frames, Call(h) PROVE k + 1 \in DOMAIN stack' /\ stack'[k + 1] = stack[k]
    BY <1>1, <2>4, CallFacts
  <2> QED
    BY <2>2, <2>3, <2>4
<1>9. CASE UNCHANGED vars
  BY <1>2, <1>9 DEF vars, globals
<1> QED
  BY <1>5, <1>6, <1>7, <1>8, <1>9 DEF Next, Step, Moves

(* Whatever authentications are started inside each other, none uses up    *)
(* the retries of a later one: when no handler runs, auth_cnt is 0.        *)
THEOREM RetriesAreRestored == ASSUME ClientAssumption PROVE Spec => []RetriesRestored
<1>1. Init => RetriesOwned
  BY DEF Init, RetriesOwned
<1>2. StackShape /\ RetriesOwned => RetriesRestored
  BY LenProperties, EmptySeq DEF StackShape, RetriesOwned, RetriesRestored
<1> QED
  BY <1>1, <1>2, RetriesNext, ShapeKept, PTL DEF Spec

-----------------------------------------------------------------------------
(* The local log and the files.                                            *)

(* Of the elements of a sequence only what is among them matters.          *)
LEMMA OwnElements ==
  ASSUME NEW S, NEW s \in Seq(S)
  PROVE  s \in Seq({s[k] : k \in DOMAIN s})
<1>1. Len(s) \in Nat /\ s \in [1..Len(s) -> S] /\ DOMAIN s = 1..Len(s)
  BY LenProperties
<1>2. s \in [1..Len(s) -> {s[k] : k \in DOMAIN s}]
  BY <1>1
<1> QED
  BY <1>1, <1>2, SeqDef

LEMMA Appended ==
  ASSUME LogShape, NEW r, Client_Log' = Append(Client_Log, r)
  PROVE  /\ Len(Client_Log) \in Nat /\ DOMAIN Client_Log = 1..Len(Client_Log)
         /\ DOMAIN Client_Log' = 1..(Len(Client_Log) + 1)
         /\ \A k \in DOMAIN Client_Log : Client_Log'[k] = Client_Log[k]
         /\ Client_Log'[Len(Client_Log) + 1] = r
         /\ Client_Log' \in Seq({Client_Log'[k] : k \in DOMAIN Client_Log'})
<1> DEFINE S == {Client_Log[k] : k \in DOMAIN Client_Log}
<1>1. Client_Log \in Seq(S \cup {r})
  BY SeqMonotonic DEF LogShape
<1>2. /\ Len(Client_Log) \in Nat /\ DOMAIN Client_Log = 1..Len(Client_Log)
  BY <1>1, LenProperties
<1>3. /\ Client_Log' \in Seq(S \cup {r}) /\ Len(Client_Log') = Len(Client_Log) + 1
      /\ \A k \in 1..Len(Client_Log) : Client_Log'[k] = Client_Log[k]
      /\ Client_Log'[Len(Client_Log) + 1] = r
  BY <1>1, AppendProperties
<1>4. DOMAIN Client_Log' = 1..Len(Client_Log')
  BY <1>3, LenProperties
<1> HIDE DEF S
<1>5. Client_Log' \in Seq({Client_Log'[k] : k \in DOMAIN Client_Log'})
  BY <1>3, OwnElements
<1> QED
  BY <1>2, <1>3, <1>4, <1>5

(* The only ways the table changes.                                        *)
Stores == Sent /\ ~Reports /\ Client_Log' = Append(Client_Log, Row(dBl[colcnt]))

Flags ==
  Client_Log' = [k \in DOMAIN Client_Log |-> [Client_Log[k] EXCEPT !.flag = "D"]]

LEMMA TableSteps ==
  ASSUME [Next]_vars
  PROVE  Stores \/ Flags \/ Client_Log' = Client_Log
<1>1. CASE Step
  <2>1. Sent => Stores \/ Client_Log' = Client_Log
    BY DEF Sent, Insert, Stores
  <2> QED
    BY <1>1, <2>1 DEF Step, PushUnopened, Expired, Authenticate, AuthSwitch, Open, Remove, Scan,
       Scanned, Trim, Trimmed, Return, MainLoopEnds, Gone
<1>2. CASE LogCleared
  BY <1>2 DEF LogCleared, Flags
<1>3. CASE User /\ ~LogCleared
  BY <1>3 DEF User, PassClicked, TempClicked, TrimClicked, LogViewed, WindowClosed
<1>4. CASE Launch \/ Crash \/ UNCHANGED vars
  BY <1>4 DEF Launch, Crash, Gone, vars
<1> QED
  BY <1>1, <1>2, <1>3, <1>4 DEF Next

(* Rows are never removed nor changed, but for their flag.                 *)
LEMMA TableGrows ==
  ASSUME LogShape, [Next]_vars
  PROVE  /\ DOMAIN Client_Log \subseteq DOMAIN Client_Log'
         /\ \A k \in DOMAIN Client_Log : /\ Client_Log'[k].entry = Client_Log[k].entry
                                         /\ Client_Log'[k].by = Client_Log[k].by
         /\ Client_Log' \in Seq({Client_Log'[k] : k \in DOMAIN Client_Log'})
         /\ \A k \in DOMAIN Client_Log' :
              Client_Log'[k] = [entry |-> Client_Log'[k].entry, flag |-> Client_Log'[k].flag,
                                by |-> Client_Log'[k].by]
<1>1. CASE Stores
  <2>1. Client_Log' = Append(Client_Log, Row(dBl[colcnt]))
    BY <1>1 DEF Stores
  <2> DEFINE r == Row(dBl[colcnt])
  <2>2. r = [entry |-> r.entry, flag |-> r.flag, by |-> r.by]
    BY DEF Row
  <2> HIDE DEF r
  <2>3. /\ DOMAIN Client_Log' = DOMAIN Client_Log \cup {Len(Client_Log) + 1}
        /\ \A k \in DOMAIN Client_Log : Client_Log'[k] = Client_Log[k]
        /\ Client_Log'[Len(Client_Log) + 1] = r
        /\ Client_Log' \in Seq({Client_Log'[k] : k \in DOMAIN Client_Log'})
    BY <2>1, Appended DEF r
  <2> QED
    BY <2>2, <2>3 DEF LogShape
<1>2. CASE Flags
  <2>1. DOMAIN Client_Log' = DOMAIN Client_Log
    BY <1>2 DEF Flags
  <2>2. \A k \in DOMAIN Client_Log :
          Client_Log'[k] = [entry |-> Client_Log[k].entry, flag |-> "D", by |-> Client_Log[k].by]
    BY <1>2 DEF Flags, LogShape
  <2>3. Len(Client_Log) \in Nat /\ DOMAIN Client_Log = 1..Len(Client_Log)
    BY LenProperties DEF LogShape
  <2>4. Client_Log' \in [1..Len(Client_Log) -> {Client_Log'[k] : k \in DOMAIN Client_Log'}]
    BY <1>2, <2>1, <2>3 DEF Flags
  <2>5. Client_Log' \in Seq({Client_Log'[k] : k \in DOMAIN Client_Log'})
    BY <2>3, <2>4, SeqDef
  <2> QED
    BY <2>1, <2>2, <2>5
<1>3. CASE Client_Log' = Client_Log
  BY <1>3 DEF LogShape
<1> QED
  BY <1>1, <1>2, <1>3, TableSteps

LEMMA RowsGrow ==
  ASSUME LogShape, [Next]_vars, NEW f, NEW codes
  PROVE  Rows(f, codes) \subseteq Rows(f, codes)'
  BY TableGrows DEF Rows

(* Only a handler of 3pass and 7pass adds to what is counted.              *)
LEMMA RowsKept ==
  ASSUME LogShape, [Next]_vars, ~(Stores /\ Top.op = "pass"), NEW f, NEW codes
  PROVE  Rows(f, codes)' = Rows(f, codes)
<1>1. CASE Stores
  <2>1. Client_Log' = Append(Client_Log, Row(dBl[colcnt])) /\ Row(dBl[colcnt]).by # "pass"
    BY <1>1 DEF Stores, Row
  <2> QED
    BY <2>1, Appended DEF Rows
<1>2. CASE DOMAIN Client_Log' = DOMAIN Client_Log
  BY <1>2, TableGrows DEF Rows
<1> QED
  BY <1>1, <1>2, TableSteps DEF Flags

LEMMA RowsStored ==
  ASSUME LogShape, Stores, Top.op = "pass", NEW f, NEW codes
  PROVE  /\ Rows(f, codes)' = IF dBl[colcnt].name = f /\ dBl[colcnt].code \in codes
                              THEN Rows(f, codes) \cup {Len(Client_Log) + 1}
                              ELSE Rows(f, codes)
         /\ Len(Client_Log) + 1 \notin Rows(f, codes)
<1>1. Client_Log' = Append(Client_Log, Row(dBl[colcnt]))
  BY DEF Stores
<1>2. /\ Row(dBl[colcnt]).by = "pass" /\ Row(dBl[colcnt]).entry = dBl[colcnt]
  BY DEF Row
<1>3. /\ Len(Client_Log) \in Nat /\ DOMAIN Client_Log = 1..Len(Client_Log)
      /\ DOMAIN Client_Log' = DOMAIN Client_Log \cup {Len(Client_Log) + 1}
      /\ \A k \in DOMAIN Client_Log : Client_Log'[k] = Client_Log[k]
      /\ Client_Log'[Len(Client_Log) + 1] = Row(dBl[colcnt])
  BY <1>1, Appended
<1>4. Len(Client_Log) + 1 \notin DOMAIN Client_Log
  BY <1>3
<1> QED
  BY <1>2, <1>3, <1>4 DEF Rows

(* What the steps do to the files.                                         *)
LEMMA FileSteps ==
  ASSUME ClientAssumption, StackShape, LogShape, [Next]_vars
  PROVE  \/ fileState' = fileState
         \/ /\ Open /\ fileState[Top.file] \in {"intact", "cut"} /\ Top.file \in Files
            /\ fileState' = [fileState EXCEPT ![Top.file] = "cut"]
         \/ /\ Remove /\ fileState[Top.file] = "cut" /\ Top.file \in Files
            /\ \E st \in {"gone", "renamed"} : fileState' = [fileState EXCEPT ![Top.file] = st]
<1>1. CASE Open \/ Remove
  <2>1. stack # <<>> /\ Top.pc \in {"erase", "chunk"}
    BY <1>1 DEF Open, Remove, At
  <2>2. Top \in Frames /\ InPlace(Top)
    BY <2>1, TopFacts DEF StackShape
  <2>3. Top.file \in Files
    BY <2>1, <2>2 DEF InPlace, Frames, ClientAssumption
  <2> QED
    BY <1>1, <2>3 DEF Open, Remove
<1>2. CASE ~Open /\ ~Remove
  BY <1>2 DEF Next, Step, User, PassClicked, TempClicked, TrimClicked, LogViewed, LogCleared,
     WindowClosed, Launch, Crash, Gone, vars, PushUnopened, Sent, Expired, Authenticate,
     AuthSwitch, Scan, Scanned, Trim, Trimmed, Return, MainLoopEnds
<1> QED
  BY <1>1, <1>2

(* The entries in memory.                                                  *)
Slotted(a) == a = [k \in 0..MAX_CNT |-> a[k]]

LEMMA SlottedExcept ==
  ASSUME NEW a, Slotted(a), NEW i, NEW e
  PROVE  Slotted([a EXCEPT ![i] = e])
  BY DEF Slotted

LEMMA LoadedSlots == Slotted(NoEntries) /\ \A old : Slotted(Loaded(old))
  BY DEF NoEntries, Loaded, Slotted

LEMMA EntriesKept ==
  ASSUME Slotted(dBl), [Next]_vars
  PROVE  Slotted(dBl')
<1>1. ASSUME NEW e, Slot(e) PROVE Slotted(dBl')
  BY <1>1, SlottedExcept DEF Slot
<1>2. CASE dBl' = dBl
  BY <1>2
<1>3. CASE MainLoopEnds \/ Crash \/ LogViewed \/ LogCleared
  <2>1. dBl' \in {NoEntries, dBl, Loaded(dBl)}
    BY <1>3 DEF MainLoopEnds, Crash, Gone, LogViewed, Pop, LogCleared
  <2> QED
    BY <2>1, LoadedSlots
<1>4. CASE Launch
  <2>1. CASE NoFault /\ dBl' = [Loaded(NoEntries) EXCEPT
               ![Cardinality(VisibleRows) + 1] = [name |-> NoName, work |-> "start", code |-> "J000"]]
    BY <2>1, LoadedSlots, SlottedExcept
  <2>2. CASE dBl' = [NoEntries EXCEPT
               ![1] = [name |-> NoName, work |-> "start", code |-> "J000"]]
    BY <2>2, LoadedSlots, SlottedExcept
  <2> QED
    BY <1>4, <2>1, <2>2 DEF Launch
<1>5. CASE (\E f \in Files : PassClicked(f)) \/ TempClicked \/ TrimClicked \/ WindowClosed
  BY <1>1, <1>5 DEF PassClicked, TempClicked, TrimClicked, WindowClosed, Prepare
<1>6. CASE Open \/ Remove
  BY <1>1, <1>2, <1>6 DEF Open, Remove
<1>7. CASE Scanned \/ Trim \/ Trimmed
  BY <1>1, <1>7 DEF Scanned, Trim, Trimmed, Prepare
<1>8. CASE PushUnopened \/ Sent \/ Expired \/ Authenticate \/ AuthSwitch \/ Scan \/ Return
  BY <1>2, <1>8 DEF PushUnopened, Sent, Expired, Authenticate, AuthSwitch, Scan, Return, globals
<1> QED
  BY <1>2, <1>3, <1>4, <1>5, <1>6, <1>7, <1>8 DEF Next, Step, User, vars, globals

LEMMA LogShapeNext ==
  ClientAssumption /\ StackShape /\ LogShape /\ [Next]_vars => LogShape'
<1> SUFFICES ASSUME ClientAssumption, StackShape, LogShape, [Next]_vars PROVE LogShape'
  OBVIOUS
<1>1. fileState' \in [Files -> {"intact", "cut", "renamed", "gone"}]
  BY FileSteps DEF LogShape
<1> QED
  BY <1>1, EntriesKept, TableGrows DEF LogShape, Slotted

LEMMA LogShapeInit == Init => LogShape
<1> SUFFICES ASSUME Init PROVE LogShape
  OBVIOUS
<1>1. Client_Log = <<>> /\ dBl = NoEntries /\ fileState = [f \in Files |-> "intact"]
  BY DEF Init
<1>2. DOMAIN Client_Log = {}
  BY <1>1, EmptySeq
<1>3. Client_Log \in Seq({Client_Log[k] : k \in DOMAIN Client_Log})
  BY <1>1, EmptySeq
<1> QED
  BY <1>1, <1>2, <1>3 DEF LogShape, NoEntries

-----------------------------------------------------------------------------
(* What has happened stays so.                                             *)

LEMMA HistoryKept ==
  ASSUME HistoryShape, [Next]_vars
  PROVE  /\ HistoryShape' /\ faults <= faults' /\ dbFaults <= dbFaults'
         /\ (intruded => intruded') /\ (mixed => mixed')
<1>1. /\ faults \in Nat /\ dbFaults \in Nat /\ intruded \in BOOLEAN /\ mixed \in BOOLEAN
  BY DEF HistoryShape
<1>2. \/ faults' = faults /\ dbFaults' = dbFaults
      \/ faults' = faults + 1 /\ dbFaults' \in {dbFaults, dbFaults + 1}
  <2>1. CASE Step
    BY <2>1 DEF Step, PushUnopened, Sent, Insert, Expired, Authenticate, AuthSwitch, Open, Remove,
       Scan, Scanned, Trim, Trimmed, Return, MainLoopEnds, history, Fault, DbFault, NoFault
  <2>2. CASE User \/ Launch \/ Crash \/ UNCHANGED vars
    BY <2>2 DEF User, PassClicked, TempClicked, TrimClicked, LogViewed, Pop, LogCleared,
       WindowClosed, Launch, Crash, vars, history, Fault, DbFault, NoFault
  <2> QED
    BY <2>1, <2>2 DEF Next
<1>3. \/ intruded' = intruded /\ mixed' = mixed
      \/ User /\ intruded' = (intruded \/ (At("authed") /\ Top.op \in {"pass", "temp", "trim"}))
         /\ (mixed' = mixed \/ mixed' = (mixed \/ Working({"temp"}))
             \/ mixed' = (mixed \/ Working({"pass"})))
  <2>1. CASE Step
    BY <2>1 DEF Step, PushUnopened, Sent, Expired, Authenticate, AuthSwitch, Open, Remove,
       Scan, Scanned, Trim, Trimmed, Return, MainLoopEnds, history, Unmoved
  <2>2. CASE User
    BY <2>2 DEF User, Click, PassClicked, TempClicked, TrimClicked, LogViewed, LogCleared,
       WindowClosed
  <2>3. CASE Launch \/ Crash \/ UNCHANGED vars
    BY <2>3 DEF Launch, Crash, vars, history
  <2> QED
    BY <2>1, <2>2, <2>3 DEF Next
<1>4. (intruded => intruded') /\ (mixed => mixed')
  BY <1>1, <1>3, Zenon
<1>5. intruded' \in BOOLEAN /\ mixed' \in BOOLEAN
  BY <1>1, <1>3, Zenon
<1> QED
  BY <1>1, <1>2, <1>4, <1>5 DEF HistoryShape

-----------------------------------------------------------------------------
(* Who waits for its entry to be stored is the running handler.            *)

(* No click comes between the preparing and the storing of an entry.       *)
LEMMA ClickApart ==
  ASSUME User, ~intruded'
  PROVE  ~AtPass(Waiting \cup {"erase"})
<1>1. Listening /\ intruded' = (intruded \/ (At("authed") /\ Top.op \in {"pass", "temp", "trim"}))
  BY DEF User, Click, PassClicked, TempClicked, TrimClicked, LogViewed, LogCleared, WindowClosed
<1>2. ~(At("authed") /\ Top.op \in {"pass", "temp", "trim"})
  BY <1>1
<1>3. stack # <<>> => Top.pc \in {"chunk", "trimming", "authed"}
  BY <1>1 DEF Listening
<1> QED
  BY <1>2, <1>3 DEF AtPass, At, Waiting

(* A handler that a click or the start of the program calls.               *)
LEMMA CalledTop ==
  ASSUME ClientAssumption, StackShape, User \/ Launch, stack' # stack
  PROVE  \E h \in Frames :
           /\ Call(h) /\ h.pc \in {"push", "send", "auth"}
           /\ h.op = "pass" => /\ h.file \in Files /\ PassClicked(h.file)
                               /\ h = Frame("pass", h.file, "push", "erase")
<1>1. CASE \E f \in Files : PassClicked(f)
  <2>1. PICK f \in Files : PassClicked(f)
    BY <1>1
  <2> DEFINE h == Frame("pass", f, "push", "erase")
  <2>2. Call(h)
    BY <2>1 DEF PassClicked
  <2>3. h \in Frames /\ h.file = f /\ h.pc = "push" /\ h.op = "pass"
    BY DEF Frame, Frames
  <2> QED
    BY <2>1, <2>2, <2>3
<1>2. CASE ~(\E f \in Files : PassClicked(f)) /\ User
  <2>1. \/ TempClicked /\ Call([Frame("temp", NoName, "push", "scan") EXCEPT !.todo = TempFiles])
        \/ TrimClicked /\ Call(Frame("trim", NoName, "push", "trim"))
        \/ WindowClosed /\ Call(Frame("quit", NoName, "send", "quit"))
    BY <1>2 DEF User, TempClicked, TrimClicked, LogViewed, LogCleared, WindowClosed
  <2> DEFINE t == [Frame("temp", NoName, "push", "scan") EXCEPT !.todo = TempFiles]
             r == Frame("trim", NoName, "push", "trim")
             q == Frame("quit", NoName, "send", "quit")
  <2>2. t \in Frames /\ t.pc = "push" /\ t.op # "pass"
    BY DEF Frame, Frames, NoName
  <2>3. r \in Frames /\ r.pc = "push" /\ r.op # "pass"
    BY DEF Frame, Frames, NoName
  <2>4. q \in Frames /\ q.pc = "send" /\ q.op # "pass"
    BY DEF Frame, Frames, NoName
  <2> QED
    BY <2>1, <2>2, <2>3, <2>4
<1>3. CASE Launch
  BY <1>3, LaunchCalls DEF Frame
<1> QED
  BY <1>1, <1>2, <1>3

LEMMA NestedNext ==
  ASSUME ClientAssumption, StackShape, HistoryShape, NestedInLoop, [Next]_vars
  PROVE  NestedInLoop'
<1> SUFFICES ASSUME ~intruded', NEW k \in DOMAIN stack', k > 1, stack'[k].op = "pass"
             PROVE  stack'[k].pc = "chunk"
  BY DEF NestedInLoop
<1>a. ~intruded
  BY HistoryKept
<1>1. \A j \in DOMAIN stack : j > 1 /\ stack[j].op = "pass" => stack[j].pc = "chunk"
  BY <1>a DEF NestedInLoop
<1>2. stack \in Seq(Frames) /\ Len(stack) \in Nat /\ DOMAIN stack = 1..Len(stack)
  BY LenProperties DEF StackShape
<1>3. CASE Moves
  <2>1. PICK h : Moved(h)
    BY <1>3, MovesTop
  <2>2. k \in DOMAIN stack /\ stack'[k] = stack[k]
    BY <1>2, <2>1, MovedFacts
  <2> QED
    BY <1>1, <2>2
<1>4. CASE Return
  <2>1. k + 1 \in DOMAIN stack /\ stack'[k] = stack[k + 1] /\ k \in Nat
    BY <1>2, <1>4, TailFacts DEF Return
  <2> QED
    BY <1>1, <2>1
<1>5. CASE MainLoopEnds \/ Crash
  <2>1. stack' = <<>>
    BY <1>5 DEF MainLoopEnds, Crash, Gone
  <2> QED
    BY <2>1, EmptySeq
<1>6. CASE stack' = stack
  BY <1>1, <1>6
<1>7. CASE User \/ Launch
  <2>1. CASE stack' # stack
    <3>1. PICK h \in Frames : Call(h)
      BY <1>7, <2>1, CalledTop
    <3>2. k - 1 \in DOMAIN stack /\ stack'[k] = stack[k - 1] /\ k \in Nat
      BY <1>2, <3>1, CallFacts
    <3>3. CASE k - 1 > 1
      BY <1>1, <3>2, <3>3
    <3>4. CASE k = 2
      <4>1. stack # <<>> /\ Top = stack[1] /\ InPlace(Top)
        BY <1>2, <3>2, EmptySeq, TopFacts DEF StackShape
      <4>2. Top.op = "pass" /\ stack'[k] = Top
        BY <3>2, <3>4, <4>1
      <4>3. User
        BY <1>7, <4>1 DEF Launch, StackShape
      <4>4. ~AtPass(Waiting \cup {"erase"}) /\ Listening
        BY <4>3, ClickApart DEF User, Click, PassClicked, TempClicked, TrimClicked, LogViewed,
           LogCleared, WindowClosed
      <4>5. Top.pc \in {"chunk", "trimming", "authed"}
        BY <4>1, <4>4 DEF Listening
      <4> QED
        BY <4>1, <4>2, <4>4, <4>5 DEF AtPass, InPlace, Waiting
    <3> QED
      BY <3>2, <3>3, <3>4
  <2> QED
    BY <1>6, <2>1
<1>8. CASE UNCHANGED vars
  BY <1>6, <1>8 DEF vars
<1> QED
  BY <1>3, <1>4, <1>5, <1>7, <1>8 DEF Next, Step, Moves

(* How a handler of 3pass or 7pass goes on.                                *)
LEMMA PassMoves ==
  ASSUME ClientAssumption, StackShape, Moves, Top.op = "pass"
  PROVE  /\ stack # <<>> /\ Top'.op = "pass" /\ Top'.file = Top.file /\ Top.file \in Files
         /\ \/ Sent \/ PushUnopened
            \/ Expired \/ Authenticate \/ AuthSwitch
            \/ Open \/ Remove
         /\ Sent \/ PushUnopened => /\ Top.pc \in {"push", "send"} /\ Top.next \in {"erase", "done"}
                                   /\ Top'.pc = Top.next /\ Top'.next = Top.next
         /\ Expired \/ Authenticate \/ AuthSwitch =>
              Top.pc \in Waiting /\ Top'.pc \in Waiting /\ Top'.next = Top.next
         /\ Open => Top.pc = "erase"
         /\ Remove => Top.pc = "chunk"
         /\ Goto("chunk") => Top'.pc = "chunk"
         /\ Goto(AfterFile) => Top'.pc = "done"
         /\ ThenPush => Top'.pc = "push" /\ Top'.next = "done"
<1>1. PICK h \in Frames : Moved(h) /\ h.op = Top.op /\ h.file = Top.file
  BY MovesTop
<1>2. stack # <<>> /\ stack \in Seq(Frames) /\ Top \in Frames /\ InPlace(Top)
  BY <1>1, TopFacts DEF Moved, StackShape
<1>3. Top'.op = "pass" /\ Top'.file = Top.file /\ Top.file \in Files
  BY <1>1, <1>2, MovedFacts DEF InPlace
<1>4. \A g : Moved(g) => Top' = g
  BY <1>2, MovedFacts
<1>5. /\ Goto("chunk") => Top'.pc = "chunk"
      /\ Goto(AfterFile) => Top'.pc = "done"
      /\ ThenPush => Top'.pc = "push" /\ Top'.next = "done"
  <2>1. AfterFile = "done"
    BY DEF AfterFile
  <2>2. Goto("chunk") => Moved([Top EXCEPT !.pc = "chunk"])
    BY <1>2, GotoMoves DEF Places
  <2>3. /\ ThenPush => Moved([Top EXCEPT !.pc = "push", !.next = AfterFile])
        /\ Goto(AfterFile) => Moved([Top EXCEPT !.pc = AfterFile])
    BY <1>2, AfterMoves
  <2> QED
    BY <1>2, <1>4, <2>1, <2>2, <2>3 DEF Frames
<1>6. ASSUME Sent \/ PushUnopened
      PROVE  /\ Top.pc \in {"push", "send"} /\ Top.next \in {"erase", "done"}
             /\ Top'.pc = Top.next /\ Top'.next = Top.next
  <2>1. Goto(Top.next) /\ Top.pc \in {"push", "send"} /\ Top.next \in {"erase", "done"}
    BY <1>2, <1>6 DEF Sent, PushUnopened, At, InPlace
  <2>2. Moved([Top EXCEPT !.pc = Top.next])
    BY <1>2, <2>1, GotoMoves DEF Places
  <2>3. Top'.pc = Top.next /\ Top'.next = Top.next
    BY <1>2, <1>4, <2>2 DEF Frames
  <2> QED
    BY <2>1, <2>3
<1>7. ASSUME Expired \/ Authenticate \/ AuthSwitch
      PROVE  Top.pc \in Waiting /\ Top'.pc \in Waiting /\ Top'.next = Top.next
  <2>1. Top.pc \in Waiting
    BY <1>7 DEF Expired, Authenticate, AuthSwitch, At, Waiting
  <2>2. \/ \E b \in BOOLEAN : stack' = [stack EXCEPT ![1].pc = "auth", ![1].deep = b]
        \/ Goto("authed") \/ Goto("send")
    BY <1>7 DEF Expired, Authenticate, AuthSwitch, AuthDone, AuthRetry, AuthAsked
  <2>3. \/ \E b \in BOOLEAN : Moved([Top EXCEPT !.pc = "auth", !.deep = b])
        \/ Moved([Top EXCEPT !.pc = "authed"]) \/ Moved([Top EXCEPT !.pc = "send"])
    BY <1>2, <2>2, AuthMoves, GotoMoves DEF Places
  <2>4. Top'.pc \in Waiting /\ Top'.next = Top.next
    BY <1>2, <1>4, <2>3 DEF Frames, Waiting
  <2> QED
    BY <2>1, <2>4
<1>8. (Open => Top.pc = "erase") /\ (Remove => Top.pc = "chunk")
  BY DEF Open, Remove, At
<1>9. ~Scan /\ ~Scanned /\ ~Trim /\ ~Trimmed
  BY <1>2 DEF Scan, Scanned, Trim, Trimmed, At, InPlace, Waiting
<1>10. \/ Sent \/ PushUnopened
       \/ Expired \/ Authenticate \/ AuthSwitch
       \/ Open \/ Remove
  BY <1>9 DEF Moves
<1> QED
  BY <1>2, <1>3, <1>5, <1>6, <1>7, <1>8, <1>10

(* How an erasing comes to be the running handler with an entry to store,  *)
(* or about to open its file.                                              *)
LEMMA PassArrives ==
  ASSUME ClientAssumption, StackShape, HistoryShape, NestedInLoop, [Next]_vars, ~intruded',
         AtPass(Waiting \cup {"erase"})'
  PROVE  \/ Moves /\ Top.op = "pass" /\ stack # <<>>
         \/ \E f \in Files : /\ PassClicked(f) /\ Top' = Frame("pass", f, "push", "erase")
                             /\ Slot([name |-> f, work |-> "pass", code |-> "J100"])
         \/ UNCHANGED vars
<1>1. stack \in Seq(Frames) /\ stack' # <<>> /\ Top'.op = "pass" /\ Top'.pc \in Waiting \cup {"erase"}
  BY DEF StackShape, AtPass
<1>2. CASE Moves
  <2>1. PICK h \in Frames : Moved(h) /\ h.op = Top.op
    BY <1>2, MovesTop
  <2>2. Top.op = "pass" /\ stack # <<>>
    BY <1>1, <2>1, MovedFacts DEF Moved
  <2> QED
    BY <1>2, <2>2
<1>3. ~Return
  <2> SUFFICES ASSUME Return PROVE FALSE
    OBVIOUS
  <2>1. stack' \in Seq(Frames) /\ 1 \in DOMAIN stack' /\ Top' = stack'[1]
    BY <1>1, TailFacts, EmptySeq, HeadTailProperties DEF Return, Top
  <2>2. 2 \in DOMAIN stack /\ Top' = stack[2]
    BY <1>1, <2>1, TailFacts DEF Return
  <2>3. ~intruded
    BY HistoryKept
  <2>4. Top'.pc = "chunk"
    BY <1>1, <2>2, <2>3 DEF NestedInLoop
  <2> QED
    BY <1>1, <2>4 DEF Waiting
<1>4. ~MainLoopEnds /\ ~Crash
  BY <1>1 DEF MainLoopEnds, Crash, Gone
<1>5. CASE (User \/ Launch) /\ stack' # stack
  <2>1. PICK h \in Frames : /\ Call(h)
                            /\ h.op = "pass" => /\ h.file \in Files /\ PassClicked(h.file)
                                                /\ h = Frame("pass", h.file, "push", "erase")
    BY <1>5, CalledTop
  <2>2. Top' = h
    BY <1>1, <2>1, CallFacts
  <2>3. Slot([name |-> h.file, work |-> "pass", code |-> "J100"])
    BY <1>1, <1>5, <2>1, <2>2 DEF PassClicked
  <2> QED
    BY <1>1, <2>1, <2>2, <2>3
<1>6. CASE User /\ stack' = stack
  <2>1. AtPass(Waiting \cup {"erase"})
    BY <1>1, <1>6 DEF AtPass, Top
  <2> QED
    BY <1>6, <2>1, ClickApart
<1>7. ~(Launch /\ stack' = stack)
  <2> SUFFICES ASSUME Launch, stack' = stack PROVE FALSE
    OBVIOUS
  <2>1. Len(stack') = Len(stack) + 1 /\ Len(stack) \in Nat
    BY <1>1, LaunchCalls, CallFacts
  <2> QED
    BY <2>1
<1> QED
  BY <1>2, <1>3, <1>4, <1>5, <1>6, <1>7 DEF Next, Step, Moves

-----------------------------------------------------------------------------
(* The entry that is about to be stored.                                   *)

Base == StackShape /\ LogShape /\ HistoryShape /\ NestedInLoop

LEMMA BaseNext == ClientAssumption /\ Base /\ [Next]_vars => Base'
  BY ShapeNext, LogShapeNext, HistoryKept, NestedNext DEF Base

LEMMA BaseKept == ASSUME ClientAssumption PROVE Spec => []Base
<1>1. Init => Base
  <2> SUFFICES ASSUME Init PROVE Base
    OBVIOUS
  <2>1. HistoryShape
    <3>1. faults = 0 /\ dbFaults = 0
      BY DEF Init
    <3>2. intruded = FALSE /\ mixed = FALSE
      BY Zenon DEF Init
    <3>3. {faults, dbFaults} \subseteq Nat
      BY <3>1
    <3>4. {intruded, mixed} \subseteq BOOLEAN
      BY <3>2, Zenon
    <3> QED
      BY <3>3, <3>4 DEF HistoryShape
  <2>2. stack = <<>> /\ DOMAIN stack = {}
    BY EmptySeq DEF Init
  <2>3. NestedInLoop
    BY <2>2 DEF NestedInLoop
  <2> QED
    BY <2>1, <2>3, ShapeInit, LogShapeInit DEF Base
<1> QED
  BY <1>1, BaseNext, PTL DEF Spec

(* Slots are those of the array.                                           *)
LEMMA SlotTaken ==
  ASSUME LogShape, InArray, NEW e, Slot(e), colcnt' = colcnt
  PROVE  dBl'[colcnt'] = e
<1>1. colcnt \in 0..MAX_CNT /\ colcnt \in DOMAIN dBl
  BY DEF LogShape, InArray
<1> QED
  BY <1>1 DEF Slot

(* What Open and Remove prepare.                                           *)
LEMMA EndPrepared ==
  ASSUME ClientAssumption, Base, InArray, Moves, Top.op = "pass", Open \/ Remove,
         Top'.pc \in Waiting
  PROVE  /\ Top'.next = "done" /\ dBl'[colcnt'].code \in EndCodes
         /\ Open => dBl'[colcnt'].name = dBl[colcnt - 1].name /\ dBl'[colcnt'].code = "J001"
         /\ Remove => /\ dBl'[colcnt'].name = Top.file
                      /\ dBl'[colcnt'].code = "J000" => fileState'[Top.file] = "gone"
<1>1. Goto("chunk") => Top'.pc = "chunk"
  BY PassMoves DEF Base
<1>2. Goto(AfterFile) => Top'.pc = "done"
  BY PassMoves DEF Base
<1>3. ThenPush => Top'.pc = "push" /\ Top'.next = "done"
  BY PassMoves DEF Base
<1>4. Top.file \in Files /\ fileState \in [Files -> {"intact", "cut", "renamed", "gone"}]
  BY PassMoves DEF Base, LogShape
<1>5. colcnt' = colcnt
  BY DEF Open, Remove
<1>6. CASE Open
  <2> DEFINE e == [name |-> dBl[colcnt - 1].name, work |-> dBl[colcnt - 1].work, code |-> "J001"]
  <2>1. Slot(e) /\ ThenPush
    BY <1>1, <1>6 DEF Open, Waiting
  <2>2. dBl'[colcnt'] = e
    BY <1>5, <2>1, SlotTaken DEF Base
  <2>3. Top.pc = "erase"
    BY <1>6 DEF Open, At
  <2>4. ~Remove
    BY <2>3 DEF Remove, At
  <2> QED
    BY <1>3, <1>6, <2>1, <2>2, <2>4 DEF EndCodes
<1>7. CASE Remove
  <2> DEFINE e(code) == [name |-> Top.file, work |-> dBl[colcnt].work, code |-> code]
  <2>1. /\ ThenPush
        /\ \/ Slot(e("J000")) /\ fileState' = [fileState EXCEPT ![Top.file] = "gone"]
           \/ Slot(e("J004"))
    BY <1>2, <1>7 DEF Remove, Waiting
  <2>2. \/ dBl'[colcnt'] = e("J000") /\ fileState'[Top.file] = "gone"
        \/ dBl'[colcnt'] = e("J004")
    BY <1>4, <1>5, <2>1, SlotTaken DEF Base
  <2>3. Top.pc = "chunk"
    BY <1>7 DEF Remove, At
  <2>4. ~Open
    BY <2>3 DEF Open, At
  <2> QED
    BY <1>3, <1>7, <2>1, <2>2, <2>4 DEF EndCodes
<1> QED
  BY <1>6, <1>7

LEMMA FirstEntryNext ==
  ASSUME ClientAssumption, Base, InArray, FirstEntry, [Next]_vars
  PROVE  FirstEntry'
<1> SUFFICES ASSUME ~intruded', AtPass(Waiting)', Top'.next = "erase"
             PROVE  dBl'[colcnt'] = [name |-> Top'.file, work |-> "pass", code |-> "J100"]
  BY DEF FirstEntry
<1>1. AtPass(Waiting \cup {"erase"})' /\ Top'.pc \in Waiting /\ ~intruded
  BY HistoryKept DEF AtPass, Base
<1>2. CASE Moves /\ Top.op = "pass" /\ stack # <<>>
  <2>1. CASE Expired \/ Authenticate \/ AuthSwitch
    <3>1. Top.pc \in Waiting /\ Top.next = "erase" /\ Top'.file = Top.file
      BY <1>2, <2>1, PassMoves DEF Base
    <3>2. dBl' = dBl /\ colcnt' = colcnt
      BY <2>1 DEF Expired, Authenticate, AuthSwitch, globals
    <3>3. AtPass(Waiting)
      BY <1>2, <3>1 DEF AtPass
    <3> QED
      BY <1>1, <3>1, <3>2, <3>3 DEF FirstEntry
  <2>2. CASE Sent \/ PushUnopened
    BY <1>1, <1>2, <2>2, PassMoves DEF Base, Waiting
  <2>3. CASE Open \/ Remove
    BY <1>1, <1>2, <2>3, EndPrepared
  <2> QED
    BY <1>2, <2>1, <2>2, <2>3, PassMoves DEF Base
<1>3. ASSUME NEW f \in Files, PassClicked(f), Top' = Frame("pass", f, "push", "erase"),
             Slot([name |-> f, work |-> "pass", code |-> "J100"])
      PROVE  dBl'[colcnt'] = [name |-> Top'.file, work |-> "pass", code |-> "J100"]
  BY <1>3, SlotTaken DEF PassClicked, Frame, Base
<1>4. CASE UNCHANGED vars
  BY <1>1, <1>4 DEF FirstEntry, AtPass, Top, vars, globals
<1> QED
  BY <1>1, <1>2, <1>3, <1>4, PassArrives DEF Base

LEMMA LastEntryNext ==
  ASSUME ClientAssumption, Base, InArray, LastEntry, [Next]_vars
  PROVE  LastEntry'
<1> SUFFICES ASSUME ~intruded', AtPass(Waiting)', Top'.next = "done", dBl'[colcnt'].code = "J000"
             PROVE  fileState'[dBl'[colcnt'].name] = "gone"
  BY DEF LastEntry
<1>1. AtPass(Waiting \cup {"erase"})' /\ Top'.pc \in Waiting /\ ~intruded
  BY HistoryKept DEF AtPass, Base
<1>2. CASE Moves /\ Top.op = "pass" /\ stack # <<>>
  <2>1. CASE Expired \/ Authenticate \/ AuthSwitch
    <3>1. Top.pc \in Waiting /\ Top.next = "done"
      BY <1>2, <2>1, PassMoves DEF Base
    <3>2. dBl' = dBl /\ colcnt' = colcnt /\ fileState' = fileState
      BY <2>1 DEF Expired, Authenticate, AuthSwitch, globals
    <3>3. AtPass(Waiting)
      BY <1>2, <3>1 DEF AtPass
    <3> QED
      BY <1>1, <3>1, <3>2, <3>3 DEF LastEntry
  <2>2. CASE Sent \/ PushUnopened
    BY <1>1, <1>2, <2>2, PassMoves DEF Base, Waiting
  <2>3. CASE Open \/ Remove
    BY <1>1, <1>2, <2>3, EndPrepared
  <2> QED
    BY <1>2, <2>1, <2>2, <2>3, PassMoves DEF Base
<1>3. CASE \E f \in Files : Top' = Frame("pass", f, "push", "erase")
  BY <1>3 DEF Frame
<1>4. CASE UNCHANGED vars
  BY <1>1, <1>4 DEF LastEntry, AtPass, Top, vars, globals
<1> QED
  BY <1>1, <1>2, <1>3, <1>4, PassArrives DEF Base

-----------------------------------------------------------------------------
(* An entry "complete" is about a file that is gone.                       *)

LEMMA GoneStays ==
  ASSUME ClientAssumption, Base, [Next]_vars, NEW f \in Files, fileState[f] = "gone"
  PROVE  fileState'[f] = "gone"
<1>1. fileState \in [Files -> {"intact", "cut", "renamed", "gone"}]
  BY DEF Base, LogShape
<1> QED
  BY <1>1, FileSteps DEF Base

(* What an erasing stores.                                                 *)
LEMMA PassStores ==
  ASSUME ClientAssumption, Base, Stores, Top.op = "pass"
  PROVE  /\ Moves /\ AtPass(Waiting) /\ Top.next \in {"erase", "done"}
         /\ fileState' = fileState /\ dBl' = dBl /\ colcnt' = colcnt + 1
         /\ Top'.op = "pass" /\ Top'.file = Top.file /\ Top'.pc = Top.next
<1>1. Sent /\ Moves /\ ~Reports
  BY DEF Stores, Moves
<1>2. Top.pc \in {"push", "send"} /\ stack # <<>>
  BY <1>1 DEF Sent, At
<1>3. /\ Top'.op = "pass" /\ Top'.file = Top.file
      /\ Top'.pc = Top.next /\ Top.next \in {"erase", "done"}
  BY <1>1, PassMoves DEF Base
<1>4. fileState' = fileState /\ dBl' = dBl /\ colcnt' = colcnt + 1
  BY <1>1 DEF Sent, Insert
<1> QED
  BY <1>1, <1>2, <1>3, <1>4 DEF AtPass, Waiting

LEMMA CompleteNext ==
  ASSUME ClientAssumption, Base, FirstEntry, LastEntry, CompleteIsGone, [Next]_vars
  PROVE  CompleteIsGone'
<1> SUFFICES ASSUME ~intruded', NEW f \in Files, Rows(f, {"J000"})' # {}
             PROVE  fileState'[f] = "gone"
  BY DEF CompleteIsGone
<1>1. ~intruded
  BY HistoryKept DEF Base
<1>2. CASE Rows(f, {"J000"}) # {}
  BY <1>1, <1>2, GoneStays DEF CompleteIsGone
<1>3. CASE Rows(f, {"J000"}) = {}
  <2>1. Stores /\ Top.op = "pass"
    BY <1>3, RowsKept DEF Base
  <2>2. dBl[colcnt].name = f /\ dBl[colcnt].code = "J000"
    BY <1>3, <2>1, RowsStored DEF Base
  <2>3. AtPass(Waiting) /\ Top.next \in {"erase", "done"} /\ fileState' = fileState
    BY <2>1, PassStores
  <2> QED
    BY <1>1, <2>2, <2>3 DEF FirstEntry, LastEntry
<1> QED
  BY <1>2, <1>3

LEMMA EntryInit == Init => FirstEntry /\ LastEntry /\ CompleteIsGone
<1> SUFFICES ASSUME Init PROVE FirstEntry /\ LastEntry /\ CompleteIsGone
  OBVIOUS
<1>1. stack = <<>> /\ Client_Log = <<>> /\ DOMAIN Client_Log = {}
  BY EmptySeq DEF Init
<1> QED
  BY <1>1 DEF FirstEntry, LastEntry, CompleteIsGone, AtPass, Rows

(* An entry "complete" of 3pass or 7pass is about a file that is really    *)
(* gone, however many erasings run inside each other and whatever fails,   *)
(* as long as colcnt stays in its array.                                   *)
THEOREM CompleteFilesAreGone ==
  ASSUME ClientAssumption PROVE Spec /\ []InArray => []CompleteIsGone
<1>1. Base /\ FirstEntry /\ LastEntry /\ CompleteIsGone /\ InArray /\ [Next]_vars
        => (FirstEntry /\ LastEntry /\ CompleteIsGone)'
  BY FirstEntryNext, LastEntryNext, CompleteNext
<1> QED
  BY <1>1, BaseKept, EntryInit, PTL DEF Spec

-----------------------------------------------------------------------------
(* No file is truncated that is not in the log.                            *)

LEMMA LoggedNext ==
  ASSUME ClientAssumption, Base, FirstEntry, LoggedFirst, [Next]_vars
  PROVE  LoggedFirst'
<1> SUFFICES ASSUME dbFaults' = 0, ~intruded', NEW k \in DOMAIN stack',
                    stack'[k].op = "pass", stack'[k].pc \in {"erase", "chunk"},
                    NEW f, f = stack'[k].file
             PROVE  Rows(f, {"J100"})' # {}
  BY DEF LoggedFirst, Rows
<1>1. dbFaults = 0 /\ ~intruded
  BY HistoryKept DEF Base, HistoryShape
<1>2. stack \in Seq(Frames) /\ Len(stack) \in Nat /\ DOMAIN stack = 1..Len(stack)
  BY LenProperties DEF Base, StackShape
<1>3. ASSUME NEW j \in DOMAIN stack, stack[j].op = "pass", stack[j].pc \in {"erase", "chunk"},
             f = stack[j].file
      PROVE  Rows(f, {"J100"})' # {}
  <2>1. Rows(f, {"J100"}) # {}
    BY <1>1, <1>3 DEF LoggedFirst
  <2> QED
    BY <2>1, RowsGrow DEF Base
<1>4. CASE Moves
  <2>1. PICK h \in Frames : Moved(h) /\ h.op = Top.op
    BY <1>4, MovesTop DEF Base
  <2>2. /\ k \in DOMAIN stack
        /\ k # 1 => stack'[k] = stack[k]
        /\ stack # <<>> /\ Top = stack[1] /\ 1 \in DOMAIN stack
        /\ stack'[1] = h /\ Top' = h
    BY <1>2, <2>1, MovedFacts, TopFacts DEF Moved
  <2>3. CASE k # 1
    BY <1>3, <2>2, <2>3
  <2>4. CASE k = 1
    <3>1. Top.op = "pass" /\ Top'.pc \in {"erase", "chunk"} /\ f = Top'.file
      BY <2>1, <2>2, <2>4
    <3>2. Top'.file = Top.file /\ Top.file \in Files
      BY <1>4, <3>1, PassMoves DEF Base
    <3>3. CASE Sent \/ PushUnopened
      <4>1. Top.pc \in {"push", "send"} /\ Top.next = "erase"
        BY <1>4, <3>1, <3>3, PassMoves DEF Base
      <4>2. dbFaults \in Nat /\ dbFaults' # dbFaults + 1
        BY <1>1
      <4>3. Stores
        BY <3>1, <3>3, <4>2 DEF Sent, PushUnopened, Insert, DbFault, Stores, Reports
      <4>4. AtPass(Waiting)
        BY <2>2, <3>1, <4>1 DEF AtPass, Waiting
      <4>5. dBl[colcnt].name = Top.file /\ dBl[colcnt].code = "J100"
        BY <1>1, <4>1, <4>4 DEF FirstEntry
      <4> QED
        BY <3>1, <3>2, <4>3, <4>5, RowsStored DEF Base
    <3>4. CASE Expired \/ Authenticate \/ AuthSwitch
      BY <1>4, <3>1, <3>4, PassMoves DEF Base, Waiting
    <3>5. CASE Open \/ Remove
      <4>1. Top.pc \in {"erase", "chunk"}
        BY <1>4, <3>1, <3>5, PassMoves DEF Base
      <4> QED
        BY <1>3, <2>2, <3>1, <3>2, <4>1
    <3> QED
      BY <1>4, <3>1, <3>3, <3>4, <3>5, PassMoves DEF Base
  <2> QED
    BY <2>3, <2>4
<1>5. CASE Return
  <2>1. k + 1 \in DOMAIN stack /\ stack'[k] = stack[k + 1]
    BY <1>2, <1>5, TailFacts DEF Return
  <2> QED
    BY <1>3, <2>1
<1>6. CASE MainLoopEnds \/ Crash
  <2>1. stack' = <<>>
    BY <1>6 DEF MainLoopEnds, Crash, Gone
  <2> QED
    BY <2>1, EmptySeq
<1>7. CASE stack' = stack
  BY <1>3, <1>7
<1>8. CASE (User \/ Launch) /\ stack' # stack
  <2>1. PICK h \in Frames : Call(h) /\ h.pc \in {"push", "send", "auth"}
    BY <1>8, CalledTop DEF Base
  <2>2. k # 1
    BY <1>2, <2>1, CallFacts
  <2>3. k - 1 \in DOMAIN stack /\ stack'[k] = stack[k - 1]
    BY <1>2, <2>1, <2>2, CallFacts
  <2> QED
    BY <1>3, <2>3
<1>9. CASE UNCHANGED vars
  BY <1>7, <1>9 DEF vars
<1> QED
  BY <1>4, <1>5, <1>6, <1>7, <1>8, <1>9 DEF Next, Step, Moves

LEMMA ErasedNext ==
  ASSUME ClientAssumption, Base, LoggedFirst, ErasedIsLogged, [Next]_vars
  PROVE  ErasedIsLogged'
<1> SUFFICES ASSUME dbFaults' = 0, ~intruded', NEW f \in Files \ TempFiles,
                    fileState'[f] # "intact"
             PROVE  Rows(f, {"J100"})' # {}
  BY DEF ErasedIsLogged
<1>1. dbFaults = 0 /\ ~intruded
  BY HistoryKept DEF Base, HistoryShape
<1>2. Rows(f, {"J100"}) \subseteq Rows(f, {"J100"})'
  BY RowsGrow DEF Base
<1>3. CASE fileState[f] # "intact"
  BY <1>1, <1>2, <1>3 DEF ErasedIsLogged
<1>4. CASE fileState[f] = "intact"
  <2>1. Open /\ Top.file = f
    <3>1. fileState \in [Files -> {"intact", "cut", "renamed", "gone"}]
      BY DEF Base, LogShape
    <3> QED
      BY <1>4, <3>1, FileSteps DEF Base
  <2>2. Top.pc = "erase" /\ stack # <<>>
    BY <2>1 DEF Open, At
  <2>3. Top = stack[1] /\ 1 \in DOMAIN stack /\ Top \in Frames /\ InPlace(Top)
    BY <2>2, TopFacts DEF Base, StackShape
  <2>4. Top.op = "pass"
    BY <2>1, <2>2, <2>3 DEF InPlace, Frames
  <2>5. Rows(f, {"J100"}) # {}
    BY <1>1, <2>1, <2>2, <2>3, <2>4 DEF LoggedFirst
  <2> QED
    BY <1>2, <2>5
<1> QED
  BY <1>3, <1>4

(* From the moment a file that is not temporary is truncated, the local    *)
(* log holds its J100 entry: unless SQLite failed or a click came while an *)
(* entry waited, and as long as colcnt stays in its array.                 *)
THEOREM ErasuresAreLogged ==
  ASSUME ClientAssumption PROVE Spec /\ []InArray => []ErasedIsLogged
<1>1. Init => LoggedFirst /\ ErasedIsLogged
  <2> SUFFICES ASSUME Init PROVE LoggedFirst /\ ErasedIsLogged
    OBVIOUS
  <2>1. DOMAIN stack = {} /\ fileState = [f \in Files |-> "intact"]
    BY EmptySeq DEF Init
  <2> QED
    BY <2>1 DEF LoggedFirst, ErasedIsLogged
<1>2. Base /\ FirstEntry /\ LoggedFirst /\ ErasedIsLogged /\ InArray /\ [Next]_vars
        => (FirstEntry /\ LoggedFirst /\ ErasedIsLogged)'
  BY FirstEntryNext, LoggedNext, ErasedNext
<1> QED
  BY <1>1, <1>2, BaseKept, EntryInit, PTL DEF Spec

-----------------------------------------------------------------------------
(* Erasings that are logged as started are logged as ended.                *)

LEMMA MethodNext ==
  ASSUME ClientAssumption, Base, MethodKept, [Next]_vars
  PROVE  MethodKept'
<1> SUFFICES ASSUME ~mixed', Working({"pass"})' PROVE chk_method' = 1
  BY DEF MethodKept
<1>1. ~mixed
  BY HistoryKept DEF Base
<1>2. stack \in Seq(Frames) /\ Len(stack) \in Nat /\ DOMAIN stack = 1..Len(stack)
  BY LenProperties DEF Base, StackShape
<1>3. PICK k \in DOMAIN stack' : stack'[k].op = "pass"
  BY DEF Working
<1>4. ASSUME Working({"pass"}), chk_method' = chk_method PROVE chk_method' = 1
  BY <1>1, <1>4 DEF MethodKept
<1>5. CASE Moves
  <2>1. PICK h \in Frames : Moved(h) /\ h.op = Top.op
    BY <1>5, MovesTop DEF Base
  <2>2. /\ k \in DOMAIN stack
        /\ k # 1 => stack'[k] = stack[k]
        /\ stack # <<>> /\ Top = stack[1] /\ 1 \in DOMAIN stack /\ stack'[1] = h
    BY <1>2, <1>3, <2>1, MovedFacts, TopFacts DEF Moved
  <2>3. Working({"pass"})
    BY <1>3, <2>1, <2>2 DEF Working
  <2>4. chk_method' = chk_method
    BY <1>5 DEF Moves, PushUnopened, Sent, Expired, Authenticate, AuthSwitch, Open, Remove, Scan,
       Scanned, Trim, Trimmed, globals
  <2> QED
    BY <1>4, <2>3, <2>4
<1>6. CASE Return
  <2>1. k + 1 \in DOMAIN stack /\ stack'[k] = stack[k + 1]
    BY <1>2, <1>3, <1>6, TailFacts DEF Return
  <2>2. Working({"pass"}) /\ chk_method' = chk_method
    BY <1>3, <1>6, <2>1 DEF Working, Return, globals
  <2> QED
    BY <1>4, <2>2
<1>7. CASE MainLoopEnds \/ Crash
  <2>1. stack' = <<>>
    BY <1>7 DEF MainLoopEnds, Crash, Gone
  <2> QED
    BY <1>3, <2>1, EmptySeq
<1>8. CASE \E f \in Files : PassClicked(f)
  BY <1>8 DEF PassClicked
<1>9. CASE (User \/ Launch) /\ ~(\E f \in Files : PassClicked(f))
  <2>1. Working({"pass"})
    <3>1. CASE stack' = stack
      BY <1>3, <3>1 DEF Working
    <3>2. CASE stack' # stack
      <4>1. PICK h \in Frames : Call(h) /\ h.op # "pass"
        BY <1>9, <3>2, CalledTop DEF Base
      <4>2. k # 1
        BY <1>2, <1>3, <4>1, CallFacts
      <4>3. k - 1 \in DOMAIN stack /\ stack'[k] = stack[k - 1]
        BY <1>2, <1>3, <4>1, <4>2, CallFacts
      <4> QED
        BY <1>3, <4>3 DEF Working
    <3> QED
      BY <3>1, <3>2
  <2>2. ~TempClicked
    <3> SUFFICES ASSUME mixed' = (mixed \/ Working({"pass"})) PROVE FALSE
      BY DEF TempClicked
    <3> QED
      BY <2>1
  <2>3. chk_method' = chk_method
    BY <1>9, <2>2 DEF User, TrimClicked, LogViewed, LogCleared, WindowClosed, Launch
  <2> QED
    BY <1>4, <2>1, <2>3
<1>10. CASE UNCHANGED vars
  BY <1>3, <1>4, <1>10 DEF vars, globals, Working
<1> QED
  BY <1>5, <1>6, <1>7, <1>8, <1>9, <1>10 DEF Next, Step, Moves

LEMMA EndNamedNext ==
  ASSUME ClientAssumption, Base, InArray, FirstEntry, EndNamed, [Next]_vars
  PROVE  EndNamed'
<1> SUFFICES ASSUME Undisturbed'
             PROVE  /\ AtPass({"erase"})' => dBl'[colcnt' - 1].name = Top'.file
                    /\ AtPass(Waiting)' /\ Top'.next = "done" =>
                         dBl'[colcnt'].name = Top'.file /\ dBl'[colcnt'].code \in EndCodes
  BY DEF EndNamed
<1>1. ~intruded' /\ faults' = 0 /\ Undisturbed
  BY HistoryKept DEF Base, HistoryShape, Undisturbed
<1>2. ASSUME AtPass({"erase"})' PROVE dBl'[colcnt' - 1].name = Top'.file
  <2>1. AtPass(Waiting \cup {"erase"})' /\ Top'.pc = "erase" /\ Top'.pc \notin Waiting
    BY <1>2 DEF AtPass, Waiting
  <2>2. CASE Moves /\ Top.op = "pass" /\ stack # <<>>
    <3>1. ~(Expired \/ Authenticate \/ AuthSwitch)
      BY <2>1, <2>2, PassMoves DEF Base
    <3>2. ~(Open \/ Remove)
      BY <2>1, <2>2, PassMoves DEF Base, Open, Remove
    <3>3. Sent \/ PushUnopened
      BY <2>2, <3>1, <3>2, PassMoves DEF Base
    <3>4. Top.pc \in {"push", "send"} /\ Top.next = "erase" /\ Top'.file = Top.file
      BY <2>1, <2>2, <3>3, PassMoves DEF Base
    <3>5. faults \in Nat /\ faults' # faults + 1
      BY <1>1 DEF Base, HistoryShape, Undisturbed
    <3>6. Stores
      BY <2>2, <3>3, <3>5 DEF Sent, PushUnopened, Insert, DbFault, Fault, Stores, Reports
    <3>7. dBl' = dBl /\ colcnt' = colcnt + 1 /\ AtPass(Waiting)
      BY <2>2, <3>6, PassStores
    <3>8. dBl[colcnt].name = Top.file
      BY <1>1, <3>4, <3>7 DEF FirstEntry, Undisturbed
    <3>9. colcnt' - 1 = colcnt
      BY <3>7 DEF InArray, ClientAssumption
    <3> QED
      BY <3>4, <3>7, <3>8, <3>9
  <2>3. CASE \E f \in Files : Top' = Frame("pass", f, "push", "erase")
    BY <2>1, <2>3 DEF Frame
  <2>4. CASE UNCHANGED vars
    BY <1>1, <1>2, <2>4 DEF EndNamed, AtPass, Top, vars, globals
  <2> QED
    BY <1>1, <2>1, <2>2, <2>3, <2>4, PassArrives DEF Base
<1>3. ASSUME AtPass(Waiting)', Top'.next = "done"
      PROVE  dBl'[colcnt'].name = Top'.file /\ dBl'[colcnt'].code \in EndCodes
  <2>1. AtPass(Waiting \cup {"erase"})' /\ Top'.pc \in Waiting
    BY <1>3 DEF AtPass
  <2>2. CASE Moves /\ Top.op = "pass" /\ stack # <<>>
    <3>1. Top'.file = Top.file
      BY <2>2, PassMoves DEF Base
    <3>2. CASE Expired \/ Authenticate \/ AuthSwitch
      <4>1. Top.pc \in Waiting /\ Top.next = "done"
        BY <1>3, <2>2, <3>2, PassMoves DEF Base
      <4>2. dBl' = dBl /\ colcnt' = colcnt
        BY <3>2 DEF Expired, Authenticate, AuthSwitch, globals
      <4>3. AtPass(Waiting)
        BY <2>2, <4>1 DEF AtPass
      <4> QED
        BY <1>1, <3>1, <4>1, <4>2, <4>3 DEF EndNamed
    <3>3. CASE Sent \/ PushUnopened
      BY <2>1, <2>2, <3>3, PassMoves DEF Base, Waiting
    <3>4. CASE Open
      <4>1. AtPass({"erase"})
        BY <2>2, <3>4, PassMoves DEF Base, AtPass
      <4> QED
        BY <1>1, <2>1, <2>2, <3>1, <3>4, <4>1, EndPrepared DEF EndNamed
    <3>5. CASE Remove
      BY <2>1, <2>2, <3>1, <3>5, EndPrepared
    <3> QED
      BY <2>2, <3>2, <3>3, <3>4, <3>5, PassMoves DEF Base
  <2>3. CASE \E f \in Files : Top' = Frame("pass", f, "push", "erase")
    BY <1>3, <2>3 DEF Frame
  <2>4. CASE UNCHANGED vars
    BY <1>1, <1>3, <2>4 DEF EndNamed, AtPass, Top, vars, globals
  <2> QED
    BY <1>1, <2>1, <2>2, <2>3, <2>4, PassArrives DEF Base
<1> QED
  BY <1>2, <1>3

(* The erasings that are going on, in stacks of which one is a call, a     *)
(* return or a step of the running handler apart from the other.           *)
LEMMA OngoingFinite ==
  ASSUME stack \in Seq(Frames), NEW f
  PROVE  IsFiniteSet(Unended(f)) /\ Unended(f) \subseteq 1..Len(stack)
<1>1. Len(stack) \in Nat
  BY LenProperties
<1>2. IsFiniteSet(1..Len(stack))
  BY <1>1, FS_Interval
<1> QED
  BY <1>2, FS_Subset DEF Unended

LEMMA RowsFinite ==
  ASSUME Base, NEW f, NEW codes
  PROVE  IsFiniteSet(Rows(f, codes)) /\ Cardinality(Rows(f, codes)) \in Nat
<1>1. Len(Client_Log) \in Nat /\ DOMAIN Client_Log = 1..Len(Client_Log)
  BY LenProperties DEF Base, LogShape
<1>2. IsFiniteSet(1..Len(Client_Log))
  BY <1>1, FS_Interval
<1>3. Rows(f, codes) \subseteq 1..Len(Client_Log)
  BY <1>1 DEF Rows
<1> QED
  BY <1>2, <1>3, FS_Subset, FS_CardinalityType

LEMMA OngoingCalled ==
  ASSUME stack \in Seq(Frames), NEW h \in Frames, Call(h), NEW f, ~Ongoing(h, f)
  PROVE  Unended(f)' = Unended(f)
<1>1. /\ Len(stack) \in Nat /\ Len(stack') = Len(stack) + 1
      /\ DOMAIN stack = 1..Len(stack) /\ stack'[1] = h
      /\ \A k \in DOMAIN stack : stack'[k + 1] = stack[k]
  BY CallFacts
<1>2. \A d \in 1..Len(stack) : stack'[Len(stack') + 1 - d] = stack[Len(stack) + 1 - d]
  <2> SUFFICES ASSUME NEW d \in 1..Len(stack)
               PROVE  stack'[Len(stack') + 1 - d] = stack[Len(stack) + 1 - d]
    OBVIOUS
  <2>1. Len(stack) + 1 - d \in DOMAIN stack /\ Len(stack') + 1 - d = (Len(stack) + 1 - d) + 1
    BY <1>1
  <2> QED
    BY <1>1, <2>1
<1>3. stack'[Len(stack') + 1 - Len(stack')] = h
  BY <1>1
<1>4. \A d \in 1..Len(stack') : d \in 1..Len(stack) \/ d = Len(stack')
  BY <1>1
<1>5. 1..Len(stack) \subseteq 1..Len(stack')
  BY <1>1
<1> QED
  BY <1>2, <1>3, <1>4, <1>5 DEF Unended

LEMMA OngoingReturned ==
  ASSUME stack \in Seq(Frames), stack # <<>>, stack' = Tail(stack), NEW f, ~Ongoing(Top, f)
  PROVE  Unended(f)' = Unended(f)
<1>1. /\ Len(stack) \in Nat \ {0} /\ Len(stack') = Len(stack) - 1
      /\ DOMAIN stack' = 1..Len(stack')
      /\ \A k \in DOMAIN stack' : stack'[k] = stack[k + 1]
      /\ Top = stack[1]
  BY TailFacts, TopFacts
<1>2. \A d \in 1..Len(stack') : stack'[Len(stack') + 1 - d] = stack[Len(stack) + 1 - d]
  <2> SUFFICES ASSUME NEW d \in 1..Len(stack')
               PROVE  stack'[Len(stack') + 1 - d] = stack[Len(stack) + 1 - d]
    OBVIOUS
  <2>1. Len(stack') + 1 - d \in DOMAIN stack' /\ Len(stack) + 1 - d = (Len(stack') + 1 - d) + 1
    BY <1>1
  <2> QED
    BY <1>1, <2>1
<1>3. stack[Len(stack) + 1 - Len(stack)] = Top
  BY <1>1
<1>4. \A d \in 1..Len(stack) : d \in 1..Len(stack') \/ d = Len(stack)
  <2>1. \A m \in Nat : \A d \in 1..m : d \in 1..(m - 1) \/ d = m
    OBVIOUS
  <2> QED
    BY <1>1, <2>1
<1>5. 1..Len(stack') \subseteq 1..Len(stack)
  BY <1>1
<1> QED
  BY <1>2, <1>3, <1>4, <1>5 DEF Unended

LEMMA OngoingMoved ==
  ASSUME stack \in Seq(Frames), NEW h, Moved(h), NEW f
  PROVE  /\ (Len(stack) \in Unended(f)) <=> Ongoing(Top, f)
         /\ (Len(stack) \in Unended(f)') <=> Ongoing(h, f)
         /\ Unended(f) \ {Len(stack)} = Unended(f)' \ {Len(stack)}
<1>1. /\ Len(stack) \in Nat \ {0} /\ Len(stack') = Len(stack) /\ DOMAIN stack = 1..Len(stack)
      /\ Top = stack[1] /\ stack'[1] = h
      /\ \A k \in DOMAIN stack : k # 1 => stack'[k] = stack[k]
  BY MovedFacts, TopFacts DEF Moved
<1>2. Len(stack) \in 1..Len(stack) /\ Len(stack) + 1 - Len(stack) = 1
  BY <1>1
<1>3. ASSUME NEW d \in 1..Len(stack), d # Len(stack)
      PROVE  stack'[Len(stack) + 1 - d] = stack[Len(stack) + 1 - d]
  <2>1. Len(stack) + 1 - d \in DOMAIN stack /\ Len(stack) + 1 - d # 1
    BY <1>1, <1>3
  <2> QED
    BY <1>1, <2>1
<1>4. Len(stack) \in Unended(f) <=> Ongoing(Top, f)
  BY <1>1, <1>2 DEF Unended
<1>5. Len(stack) \in Unended(f)' <=> Ongoing(h, f)
  BY <1>1, <1>2 DEF Unended
<1>6. Unended(f) \ {Len(stack)} = Unended(f)' \ {Len(stack)}
  BY <1>1, <1>3 DEF Unended
<1> QED
  BY <1>4, <1>5, <1>6

(* A step of the running erasing: it begins to be ongoing when its J100    *)
(* entry is stored, and ends when the entry of its result is.              *)
LEMMA BalancedMoves ==
  ASSUME ClientAssumption, Base, FirstEntry, EndNamed, MethodKept, Balanced, Moves,
         [Next]_vars, Undisturbed, Undisturbed', NEW f \in Files
  PROVE  Cardinality(Rows(f, {"J100"}))' =
           Cardinality(Rows(f, EndCodes))' + Cardinality(Unended(f))'
<1>1. PICK h \in Frames : Moved(h) /\ h.op = Top.op
  BY MovesTop DEF Base
<1>2. stack \in Seq(Frames) /\ stack # <<>> /\ Top' = h /\ stack' \in Seq(Frames)
  BY <1>1, MovedFacts DEF Base, StackShape, Moved
<1> DEFINE starts == Cardinality(Rows(f, {"J100"}))
           ends == Cardinality(Rows(f, EndCodes))
           open == Cardinality(Unended(f))
           n == Len(stack)
<1>3. starts = ends + open
  BY DEF Balanced
<1>4. IsFiniteSet(Unended(f)) /\ starts \in Nat /\ ends \in Nat /\ open \in Nat
  BY <1>2, OngoingFinite, RowsFinite, FS_CardinalityType
<1>5. /\ n \in Unended(f) <=> Ongoing(Top, f)
      /\ n \in Unended(f)' <=> Ongoing(Top', f)
      /\ Unended(f) \ {n} = Unended(f)' \ {n}
  BY <1>1, <1>2, OngoingMoved
<1>6. ASSUME Rows(f, {"J100"})' = Rows(f, {"J100"}), Rows(f, EndCodes)' = Rows(f, EndCodes),
             Ongoing(Top, f) <=> Ongoing(Top', f)
      PROVE  starts' = ends' + open'
  <2>1. \A d : d \in Unended(f)' <=> d \in Unended(f)
    BY <1>5, <1>6, Zenon
  <2>2. Unended(f)' = Unended(f)
    BY <2>1, Zenon
  <2> QED
    BY <1>3, <1>6, <2>2
<1>7. CASE Top.op # "pass"
  <2>1. ~Ongoing(Top, f) /\ ~Ongoing(Top', f)
    BY <1>1, <1>2, <1>7 DEF Ongoing
  <2>2. /\ Rows(f, {"J100"})' = Rows(f, {"J100"})
        /\ Rows(f, EndCodes)' = Rows(f, EndCodes)
    BY <1>7, RowsKept DEF Base
  <2> QED
    BY <1>6, <2>1, <2>2
<1>8. CASE Top.op = "pass" /\ (Sent \/ PushUnopened)
  <2>1. /\ Top.pc \in {"push", "send"} /\ Top.next \in {"erase", "done"}
        /\ Top'.pc = Top.next /\ Top'.file = Top.file /\ Top'.op = "pass" /\ Top.file \in Files
    BY <1>8, PassMoves DEF Base
  <2>2. faults \in Nat /\ faults' # faults + 1
    BY DEF Base, HistoryShape, Undisturbed
  <2>3. Stores
    BY <1>8, <2>2 DEF Sent, PushUnopened, Insert, DbFault, Fault, Stores, Reports
  <2>4. AtPass(Waiting)
    BY <1>8, <2>3, PassStores
  <2> DEFINE i == Len(Client_Log) + 1
  <2>5. /\ Rows(f, {"J100"})' = IF dBl[colcnt].name = f /\ dBl[colcnt].code \in {"J100"}
                                THEN Rows(f, {"J100"}) \cup {i} ELSE Rows(f, {"J100"})
        /\ Rows(f, EndCodes)' = IF dBl[colcnt].name = f /\ dBl[colcnt].code \in EndCodes
                                THEN Rows(f, EndCodes) \cup {i} ELSE Rows(f, EndCodes)
        /\ i \notin Rows(f, {"J100"}) /\ i \notin Rows(f, EndCodes)
    BY <1>8, <2>3, RowsStored DEF Base
  <2>6. CASE Top.next = "erase"
    <3>1. dBl[colcnt].name = Top.file /\ dBl[colcnt].code = "J100"
      BY <2>4, <2>6 DEF FirstEntry, Undisturbed
    <3>2. ~Ongoing(Top, f) /\ (Ongoing(Top', f) <=> Top.file = f)
      BY <2>1, <2>6 DEF Ongoing, Waiting
    <3>3. Rows(f, EndCodes)' = Rows(f, EndCodes)
      BY <2>5, <3>1 DEF EndCodes
    <3>4. CASE Top.file # f
      <4>1. Rows(f, {"J100"})' = Rows(f, {"J100"})
        BY <2>5, <3>1, <3>4
      <4> QED
        BY <1>6, <3>2, <3>3, <3>4, <4>1
    <3>5. CASE Top.file = f
      <4>1. Rows(f, {"J100"})' = Rows(f, {"J100"}) \cup {i}
        BY <2>5, <3>1, <3>5
      <4>2. Unended(f)' = Unended(f) \cup {n} /\ n \notin Unended(f)
        BY <1>5, <3>2, <3>5
      <4>3. starts' = starts + 1
        BY <2>5, <4>1, RowsFinite, FS_AddElement
      <4>4. open' = open + 1
        BY <1>4, <4>2, FS_AddElement
      <4> QED
        BY <1>3, <1>4, <3>3, <4>3, <4>4
    <3> QED
      BY <3>4, <3>5
  <2>7. CASE Top.next = "done"
    <3>1. dBl[colcnt].name = Top.file /\ dBl[colcnt].code \in EndCodes
      BY <2>4, <2>7 DEF EndNamed
    <3>2. ~Ongoing(Top', f) /\ (Ongoing(Top, f) <=> Top.file = f)
      BY <1>8, <2>1, <2>7 DEF Ongoing, Waiting
    <3>3. Rows(f, {"J100"})' = Rows(f, {"J100"})
      BY <2>5, <3>1 DEF EndCodes
    <3>4. CASE Top.file # f
      <4>1. Rows(f, EndCodes)' = Rows(f, EndCodes)
        BY <2>5, <3>1, <3>4
      <4> QED
        BY <1>6, <3>2, <3>3, <3>4, <4>1
    <3>5. CASE Top.file = f
      <4>1. Rows(f, EndCodes)' = Rows(f, EndCodes) \cup {i}
        BY <2>5, <3>1, <3>5
      <4>2. Unended(f) = Unended(f)' \cup {n} /\ n \notin Unended(f)'
        BY <1>5, <3>2, <3>5
      <4>3. ends' = ends + 1
        BY <2>5, <4>1, RowsFinite, FS_AddElement
      <4>4. IsFiniteSet(Unended(f)') /\ open' \in Nat
        BY <1>4, <4>2, FS_Subset, FS_CardinalityType
      <4>5. open = open' + 1
        BY <4>2, <4>4, FS_AddElement
      <4> QED
        BY <1>3, <1>4, <3>3, <4>3, <4>4, <4>5
    <3> QED
      BY <3>4, <3>5
  <2> QED
    BY <2>1, <2>6, <2>7
<1>9. CASE Top.op = "pass" /\ ~(Sent \/ PushUnopened)
  <2>1. ~Stores
    BY <1>9 DEF Stores
  <2>2. /\ Rows(f, {"J100"})' = Rows(f, {"J100"})
        /\ Rows(f, EndCodes)' = Rows(f, EndCodes)
    BY <2>1, RowsKept DEF Base
  <2>3. CASE Expired \/ Authenticate \/ AuthSwitch
    <3>1. /\ Top.pc \in Waiting /\ Top'.pc \in Waiting /\ Top'.next = Top.next
          /\ Top'.file = Top.file /\ Top'.op = "pass"
      BY <1>9, <2>3, PassMoves DEF Base
    <3>2. Ongoing(Top, f) <=> Ongoing(Top', f)
      BY <1>9, <3>1 DEF Ongoing, Waiting
    <3> QED
      BY <1>6, <2>2, <3>2
  <2>4. CASE Open \/ Remove
    <3>1. Top.pc \in {"erase", "chunk"} /\ Top'.file = Top.file /\ Top'.op = "pass"
      BY <1>9, <2>4, PassMoves DEF Base
    <3>2. chk_method = 1
      <4>1. Top = stack[1] /\ 1 \in DOMAIN stack
        BY <1>2, TopFacts
      <4>2. Working({"pass"})
        BY <1>9, <4>1 DEF Working
      <4> QED
        BY <4>2 DEF MethodKept, Undisturbed
    <3>3. Goto("chunk") \/ ThenPush
      BY <2>4, <3>2 DEF Open, Remove
    <3>4. \/ Top'.pc = "chunk"
          \/ Top'.pc = "push" /\ Top'.next = "done"
      BY <1>9, <3>3, PassMoves DEF Base
    <3>5. Ongoing(Top, f) <=> Ongoing(Top', f)
      BY <1>9, <3>1, <3>4 DEF Ongoing, Waiting
    <3> QED
      BY <1>6, <2>2, <3>5
  <2> QED
    BY <1>9, <2>3, <2>4, PassMoves DEF Base
<1> QED
  BY <1>7, <1>8, <1>9

LEMMA BalancedNext ==
  ASSUME ClientAssumption, Base, FirstEntry, EndNamed, MethodKept, Balanced, [Next]_vars
  PROVE  Balanced'
<1> SUFFICES ASSUME Undisturbed', NEW f \in Files
             PROVE  Cardinality(Rows(f, {"J100"}))' =
                      Cardinality(Rows(f, EndCodes))' + Cardinality(Unended(f))'
  BY DEF Balanced, Rows, Unended
<1>1. Undisturbed
  BY HistoryKept DEF Base, HistoryShape, Undisturbed
<1>2. stack \in Seq(Frames)
  BY DEF Base, StackShape
<1>3. Cardinality(Rows(f, {"J100"})) = Cardinality(Rows(f, EndCodes)) + Cardinality(Unended(f))
  BY <1>1 DEF Balanced
<1>4. ASSUME ~Moves PROVE /\ Rows(f, {"J100"})' = Rows(f, {"J100"})
                          /\ Rows(f, EndCodes)' = Rows(f, EndCodes)
  <2>1. ~Stores
    BY <1>4 DEF Stores, Moves
  <2> QED
    BY <2>1, RowsKept DEF Base
<1>5. ASSUME ~Moves, Unended(f)' = Unended(f)
      PROVE  Cardinality(Rows(f, {"J100"}))' =
               Cardinality(Rows(f, EndCodes))' + Cardinality(Unended(f))'
  BY <1>3, <1>4, <1>5
<1>6. CASE Moves
  BY <1>1, <1>6, BalancedMoves
<1>7. CASE ~Moves /\ Return
  <2>1. stack # <<>> /\ Top.pc \in {"done", "quit"} /\ stack' = Tail(stack)
    BY <1>7 DEF Return
  <2>2. ~Ongoing(Top, f)
    BY <2>1 DEF Ongoing, Waiting
  <2> QED
    BY <1>2, <1>5, <1>7, <2>1, <2>2, OngoingReturned
<1>8. CASE ~Moves /\ stack' = stack
  BY <1>5, <1>8 DEF Unended
<1>9. ~Crash
  <2>1. faults \in Nat /\ faults' # faults + 1
    BY <1>1 DEF Base, HistoryShape, Undisturbed
  <2> QED
    BY <2>1 DEF Crash, Fault
<1>10. MainLoopEnds => stack' = stack
  BY DEF MainLoopEnds, Gone
<1>11. CASE ~Moves /\ (User \/ Launch) /\ stack' # stack
  <2>1. PICK h \in Frames : /\ Call(h) /\ h.pc \in {"push", "send", "auth"}
                            /\ h.op = "pass" => h = Frame("pass", h.file, "push", "erase")
    BY <1>11, CalledTop DEF Base
  <2>2. ~Ongoing(h, f)
    BY <2>1 DEF Ongoing, Frame
  <2> QED
    BY <1>2, <1>5, <1>11, <2>1, <2>2, OngoingCalled
<1>12. CASE UNCHANGED vars
  <2>1. Rows(f, {"J100"})' = Rows(f, {"J100"}) /\ Rows(f, EndCodes)' = Rows(f, EndCodes)
    BY <1>12 DEF vars, Rows
  <2>2. Unended(f)' = Unended(f)
    BY <1>12 DEF vars, Unended
  <2> QED
    BY <1>3, <2>1, <2>2
<1> QED
  BY <1>6, <1>7, <1>8, <1>9, <1>10, <1>11, <1>12 DEF Next, Step, Moves

(* When all handlers have returned, every erasing that is logged as        *)
(* started is logged as ended, once: without failures, clicks while an     *)
(* entry waits and temporary files erased at the same time, and as long as *)
(* colcnt stays in its array.                                              *)
THEOREM ErasuresAreEnded ==
  ASSUME ClientAssumption PROVE Spec /\ []InArray => []StartsAreEnded
<1>1. Init => EndNamed /\ MethodKept /\ Balanced
  <2> SUFFICES ASSUME Init PROVE EndNamed /\ MethodKept /\ Balanced
    OBVIOUS
  <2>1. stack = <<>> /\ DOMAIN stack = {} /\ Len(stack) = 0 /\ DOMAIN Client_Log = {}
    BY EmptySeq DEF Init
  <2>2. \A f : /\ Rows(f, {"J100"}) = {} /\ Rows(f, EndCodes) = {}
               /\ Unended(f) = {}
    BY <2>1 DEF Rows, Unended
  <2>3. Cardinality({}) = 0
    BY FS_EmptySet
  <2>4. EndNamed
    BY <2>1 DEF EndNamed, AtPass
  <2>5. MethodKept
    BY <2>1 DEF MethodKept, Working
  <2>6. Balanced
    <3>1. 0 = 0 + 0
      OBVIOUS
    <3> QED
      BY <2>2, <2>3, <3>1 DEF Balanced
  <2> QED
    BY <2>4, <2>5, <2>6
<1>2. /\ Base /\ FirstEntry /\ EndNamed /\ InArray /\ [Next]_vars
        => FirstEntry' /\ EndNamed'
  BY FirstEntryNext, EndNamedNext
<1>3. Base /\ MethodKept /\ [Next]_vars => MethodKept'
  BY MethodNext
<1>4. Base /\ FirstEntry /\ EndNamed /\ MethodKept /\ Balanced /\ [Next]_vars => Balanced'
  BY BalancedNext
<1>5. Base /\ Balanced => StartsAreEnded
  <2> SUFFICES ASSUME Base, Balanced, stack = <<>>, Undisturbed, NEW f \in Files
               PROVE  Cardinality(Rows(f, {"J100"})) = Cardinality(Rows(f, {"J000", "J001", "J004"}))
    BY DEF StartsAreEnded, Undisturbed
  <2>1. Unended(f) = {} /\ Cardinality({}) = 0
    BY EmptySeq, FS_EmptySet DEF Unended
  <2>2. Cardinality(Rows(f, EndCodes)) \in Nat
    BY RowsFinite
  <2>3. Cardinality(Rows(f, {"J100"})) = Cardinality(Rows(f, EndCodes)) + Cardinality(Unended(f))
    BY DEF Balanced
  <2>4. Cardinality(Rows(f, {"J100"})) = Cardinality(Rows(f, EndCodes))
    BY <2>1, <2>2, <2>3
  <2> QED
    BY <2>4 DEF EndCodes
<1> QED
  BY <1>1, <1>2, <1>3, <1>4, <1>5, BaseKept, EntryInit, PTL DEF Spec

-----------------------------------------------------------------------------
(* colcnt and the table.                                                   *)

LEMMA VisibleFinite ==
  ASSUME LogShape
  PROVE  IsFiniteSet(VisibleRows) /\ Cardinality(VisibleRows) \in Nat
<1>1. Len(Client_Log) \in Nat /\ DOMAIN Client_Log = 1..Len(Client_Log)
  BY LenProperties DEF LogShape
<1>2. IsFiniteSet(1..Len(Client_Log))
  BY <1>1, FS_Interval
<1>3. VisibleRows \subseteq 1..Len(Client_Log)
  BY <1>1 DEF VisibleRows
<1> QED
  BY <1>2, <1>3, FS_Subset, FS_CardinalityType

(* A row that is inserted is visible.                                      *)
LEMMA VisibleStored ==
  ASSUME LogShape, Stores
  PROVE  Cardinality(VisibleRows') = Cardinality(VisibleRows) + 1
<1>1. Client_Log' = Append(Client_Log, Row(dBl[colcnt])) /\ Row(dBl[colcnt]).flag = "N"
  BY DEF Stores, Row
<1>2. /\ Len(Client_Log) \in Nat /\ DOMAIN Client_Log = 1..Len(Client_Log)
      /\ DOMAIN Client_Log' = DOMAIN Client_Log \cup {Len(Client_Log) + 1}
      /\ \A k \in DOMAIN Client_Log : Client_Log'[k] = Client_Log[k]
      /\ Client_Log'[Len(Client_Log) + 1] = Row(dBl[colcnt])
  BY <1>1, Appended
<1>3. VisibleRows' = VisibleRows \cup {Len(Client_Log) + 1}
  BY <1>1, <1>2 DEF VisibleRows
<1>4. Len(Client_Log) + 1 \notin VisibleRows
  BY <1>2 DEF VisibleRows
<1> QED
  BY <1>3, <1>4, VisibleFinite, FS_AddElement

(* A cleared log shows nothing.                                            *)
LEMMA VisibleCleared ==
  ASSUME Flags, LogShape
  PROVE  Cardinality(VisibleRows') = 0
<1>1. \A k \in DOMAIN Client_Log : Client_Log'[k].flag = "D"
  BY DEF Flags, LogShape
<1>2. VisibleRows' = {}
  BY <1>1 DEF VisibleRows, Flags
<1> QED
  BY <1>2, FS_EmptySet

LEMMA CountNext ==
  ClientAssumption /\ StackShape /\ LogShape /\ HistoryShape /\ CountMatchesTable /\ [Next]_vars
    => CountMatchesTable'
<1> SUFFICES ASSUME ClientAssumption, StackShape, LogShape, HistoryShape, CountMatchesTable,
                    [Next]_vars, dbFaults' = 0, proc' # "down"
             PROVE  colcnt' = Cardinality(VisibleRows') + 1
  BY DEF CountMatchesTable
<1>1. dbFaults = 0 /\ ~DbFault
  BY HistoryKept DEF HistoryShape, DbFault
<1>2. ASSUME Client_Log' = Client_Log PROVE VisibleRows' = VisibleRows
  BY <1>2 DEF VisibleRows
<1>3. ASSUME proc # "down", colcnt' = colcnt, Client_Log' = Client_Log
      PROVE  colcnt' = Cardinality(VisibleRows') + 1
  BY <1>1, <1>2, <1>3 DEF CountMatchesTable
<1>4. CASE Launch \/ LogViewed
  <2>1. colcnt' = Cardinality(VisibleRows) + 1 /\ Client_Log' = Client_Log
    BY <1>1, <1>4 DEF Launch, LogViewed, Pop
  <2> QED
    BY <1>2, <2>1
<1>5. CASE LogCleared
  <2>1. Flags /\ colcnt' = 1
    BY <1>1, <1>5 DEF LogCleared, Flags
  <2> QED
    BY <2>1, VisibleCleared
<1>6. CASE Sent
  <2>1. proc # "down"
    BY <1>6 DEF Sent, At, StackShape
  <2>2. CASE Reports
    BY <1>3, <1>6, <2>1, <2>2 DEF Sent
  <2>3. CASE ~Reports
    <3>1. Client_Log' = Append(Client_Log, Row(dBl[colcnt])) /\ colcnt' = colcnt + 1
      BY <1>1, <1>6, <2>3 DEF Sent, Insert
    <3>2. colcnt = Cardinality(VisibleRows) + 1
      BY <1>1, <2>1 DEF CountMatchesTable
    <3>3. Cardinality(VisibleRows') = Cardinality(VisibleRows) + 1
      BY <1>6, <2>3, <3>1, VisibleStored DEF Stores
    <3> QED
      BY <3>1, <3>2, <3>3, VisibleFinite
  <2> QED
    BY <2>2, <2>3
<1>7. CASE (Moves \/ Return) /\ ~Sent
  <2>1. proc # "down"
    BY <1>7 DEF StackShape, Moves, Return, PushUnopened, Expired, Authenticate, AuthSwitch, Open,
       Remove, Scan, Scanned, Trim, Trimmed, At
  <2>2. colcnt' = colcnt /\ Client_Log' = Client_Log
    BY <1>7 DEF Moves, Return, PushUnopened, Expired, Authenticate, AuthSwitch, Open, Remove, Scan,
       Scanned, Trim, Trimmed, globals
  <2> QED
    BY <1>3, <2>1, <2>2
<1>8. CASE User /\ ~LogViewed /\ ~LogCleared
  <2>1. proc # "down"
    BY <1>8, UserCalls
  <2>2. colcnt' = colcnt /\ Client_Log' = Client_Log
    BY <1>8 DEF User, PassClicked, TempClicked, TrimClicked, WindowClosed
  <2> QED
    BY <1>3, <2>1, <2>2
<1>9. CASE MainLoopEnds \/ Crash
  BY <1>9 DEF MainLoopEnds, Crash, Gone
<1>10. CASE UNCHANGED vars
  BY <1>3, <1>10 DEF vars, globals
<1> QED
  BY <1>4, <1>5, <1>6, <1>7, <1>8, <1>9, <1>10 DEF Next, Step, Moves

(* As long as SQLite does not fail, colcnt is the number of the next row,  *)
(* in the middle of any nesting of handlers, after any clearing and start. *)
THEOREM CounterMatchesTable ==
  ASSUME ClientAssumption PROVE Spec => []CountMatchesTable
<1>1. Init => CountMatchesTable
  BY DEF Init, CountMatchesTable
<1>2. Base => StackShape /\ LogShape /\ HistoryShape
  BY DEF Base
<1>3. Base /\ CountMatchesTable /\ [Next]_vars => CountMatchesTable'
  BY <1>2, CountNext
<1> QED
  BY <1>1, <1>3, BaseKept, PTL DEF Spec

-----------------------------------------------------------------------------
(* The types.                                                              *)

LogTyped ==
  \A k \in DOMAIN Client_Log :
    Client_Log[k] \in [entry : Entry, flag : {"N", "D"}, by : {"pass", "temp", "trim"}]

Entries == dBl \in [0..MAX_CNT -> Entry]

Counted == colcnt \in Nat \ {0}

Scalars ==
  /\ proc \in {"down", "starting", "running"}
  /\ {closed, quit, leaving, intruded, mixed} \subseteq BOOLEAN
  /\ chk_method \in {0, 1}
  /\ auth_result \in {0, 1}
  /\ auth_cnt \in 0..3

LEMMA CountedNext == Counted /\ LogShape /\ [Next]_vars => Counted'
<1> SUFFICES ASSUME Counted, LogShape, [Next]_vars PROVE Counted'
  OBVIOUS
<1>1. Cardinality(VisibleRows) + 1 \in Nat \ {0} /\ colcnt \in Nat \ {0}
  BY VisibleFinite DEF Counted
<1>2. colcnt' \in {1, colcnt, colcnt + 1, Cardinality(VisibleRows) + 1}
  <2>1. CASE Step
    BY <2>1 DEF Step, PushUnopened, Sent, Insert, Expired, Authenticate, AuthSwitch, Open, Remove,
       Scan, Scanned, Trim, Trimmed, Return, MainLoopEnds, Gone, globals
  <2>2. CASE User
    BY <2>2 DEF User, PassClicked, TempClicked, TrimClicked, LogViewed, Pop, LogCleared, WindowClosed
  <2>3. CASE Launch \/ Crash \/ UNCHANGED vars
    BY <2>3 DEF Launch, Crash, Gone, vars, globals
  <2> QED
    BY <2>1, <2>2, <2>3 DEF Next
<1> QED
  BY <1>1, <1>2 DEF Counted

LEMMA ScalarsNext == ClientAssumption /\ StackShape /\ Scalars /\ [Next]_vars => Scalars'
<1> SUFFICES ASSUME ClientAssumption, StackShape, Scalars, [Next]_vars PROVE Scalars'
  OBVIOUS
<1>1. proc' \in {"down", "starting", "running"}
  BY DEF Scalars, Next, Step, User, PassClicked, TempClicked, TrimClicked, LogViewed, LogCleared,
     WindowClosed, Click, Launch, Crash, Gone, vars, PushUnopened, Sent, Expired, Authenticate,
     AuthSwitch, Open, Remove, Scan, Scanned, Trim, Trimmed, Return, MainLoopEnds, Unmoved
<1>2. closed' \in BOOLEAN /\ quit' \in BOOLEAN
  BY DEF Scalars, Next, Step, User, PassClicked, TempClicked, TrimClicked, LogViewed, LogCleared,
     WindowClosed, Click, Launch, Crash, Gone, vars, PushUnopened, Sent, Expired, Authenticate,
     AuthSwitch, Open, Remove, Scan, Scanned, Trim, Trimmed, Return, MainLoopEnds, Unmoved
<1>3. leaving' \in BOOLEAN /\ intruded' \in BOOLEAN /\ mixed' \in BOOLEAN
  BY DEF Scalars, Next, Step, User, PassClicked, TempClicked, TrimClicked, LogViewed, LogCleared,
     WindowClosed, Click, Launch, Crash, Gone, vars, PushUnopened, Sent, Expired, Authenticate,
     AuthSwitch, Open, Remove, Scan, Scanned, Trim, Trimmed, Return, MainLoopEnds, Unmoved, history
<1>4. chk_method' \in {0, 1} /\ auth_result' \in {0, 1}
  BY DEF Scalars, Next, Step, User, PassClicked, TempClicked, TrimClicked, LogViewed, LogCleared,
     WindowClosed, Click, Launch, Crash, Gone, vars, PushUnopened, Sent, Expired, Authenticate,
     AuthSwitch, AuthDone, AuthRetry, AuthAsked, Open, Remove, Scan, Scanned, Trim, Trimmed,
     Return, MainLoopEnds, globals
<1>5. auth_cnt' \in 0..3
  <2>1. auth_cnt \in 0..3
    BY DEF Scalars
  <2>2. CASE AuthSwitch
    BY <2>1, <2>2 DEF AuthSwitch, AuthDone, AuthRetry, AuthAsked
  <2>3. CASE ~AuthSwitch
    <3>1. auth_cnt' \in {0, auth_cnt}
      BY <2>3 DEF Next, Step, User, PassClicked, TempClicked, TrimClicked, LogViewed, LogCleared,
         WindowClosed, Click, Launch, Crash, Gone, vars, PushUnopened, Sent, Expired, Authenticate,
         Open, Remove, Scan, Scanned, Trim, Trimmed, Return, MainLoopEnds, globals
    <3> QED
      BY <2>1, <3>1
  <2> QED
    BY <2>2, <2>3
<1> QED
  BY <1>1, <1>2, <1>3, <1>4, <1>5 DEF Scalars

LEMMA LogTypedNext ==
  ClientAssumption /\ StackShape /\ LogShape /\ InArray /\ Entries /\ LogTyped /\ [Next]_vars
    => LogTyped'
<1> SUFFICES ASSUME ClientAssumption, StackShape, LogShape, InArray, Entries, LogTyped, [Next]_vars
             PROVE  LogTyped'
  OBVIOUS
<1> DEFINE T == [entry : Entry, flag : {"N", "D"}, by : {"pass", "temp", "trim"}]
<1>1. \A k \in DOMAIN Client_Log : Client_Log[k] \in T
  BY DEF LogTyped
<1>2. CASE Stores
  <2>1. Client_Log' = Append(Client_Log, Row(dBl[colcnt])) /\ Sent /\ Top.op \notin {"start", "quit"}
    BY <1>2 DEF Stores, Reports
  <2>2. Top.op \in {"pass", "temp", "trim"}
    BY <2>1, TopFacts DEF StackShape, Sent, At, Frames
  <2>3. dBl[colcnt] \in Entry
    BY DEF Entries, InArray
  <2>4. Row(dBl[colcnt]) \in T
    BY <2>2, <2>3 DEF Row
  <2>5. /\ Len(Client_Log) \in Nat /\ DOMAIN Client_Log = 1..Len(Client_Log)
        /\ DOMAIN Client_Log' = DOMAIN Client_Log \cup {Len(Client_Log) + 1}
        /\ \A k \in DOMAIN Client_Log : Client_Log'[k] = Client_Log[k]
        /\ Client_Log'[Len(Client_Log) + 1] = Row(dBl[colcnt])
    BY <2>1, Appended
  <2> HIDE DEF T
  <2>6. \A k \in DOMAIN Client_Log' : Client_Log'[k] \in T
    BY <1>1, <2>4, <2>5
  <2> QED
    BY <2>6 DEF LogTyped, T
<1>3. CASE Flags
  <2>1. \A k \in DOMAIN Client_Log : [Client_Log[k] EXCEPT !.flag = "D"] \in T
    BY <1>1
  <2> QED
    BY <1>3, <2>1 DEF Flags, LogTyped
<1>4. CASE Client_Log' = Client_Log
  BY <1>4 DEF LogTyped
<1> QED
  BY <1>2, <1>3, <1>4, TableSteps

LEMMA EntryTaken ==
  ASSUME Entries, NEW i, NEW e \in Entry, dBl' = [dBl EXCEPT ![i] = e]
  PROVE  Entries'
  BY DEF Entries

LEMMA LoadedTyped ==
  ASSUME LogTyped, NEW old \in [0..MAX_CNT -> Entry]
  PROVE  Loaded(old) \in [0..MAX_CNT -> Entry]
<1> DEFINE at(k) == {i \in VisibleRows : Cardinality({j \in VisibleRows : j <= i}) = k}
<1>1. \A k \in 0..MAX_CNT : at(k) # {} => (CHOOSE i \in at(k) : TRUE) \in DOMAIN Client_Log
  BY DEF VisibleRows
<1>2. \A k \in DOMAIN Client_Log : Client_Log[k].entry \in Entry
  BY DEF LogTyped
<1>3. Loaded(old) = [k \in 0..MAX_CNT |->
                       IF at(k) = {} THEN old[k] ELSE Client_Log[CHOOSE i \in at(k) : TRUE].entry]
  BY DEF Loaded
<1> HIDE DEF at
<1> QED
  BY <1>1, <1>2, <1>3

LEMMA EntriesNext ==
  ClientAssumption /\ StackShape /\ InArray /\ Counted /\ Entries /\ LogTyped /\ [Next]_vars
    => Entries'
<1> SUFFICES ASSUME ClientAssumption, StackShape, InArray, Counted, Entries, LogTyped, [Next]_vars
             PROVE  Entries'
  OBVIOUS
<1>1. /\ dBl[colcnt] \in Entry /\ dBl[colcnt - 1] \in Entry /\ dBl \in [0..MAX_CNT -> Entry]
      /\ NoName \in Files \cup {NoName}
  <2>1. MAX_CNT \in Nat /\ colcnt \in 0..MAX_CNT /\ colcnt \in Nat \ {0}
    BY DEF InArray, Counted, ClientAssumption
  <2>2. colcnt - 1 \in 0..MAX_CNT
    BY <2>1
  <2> QED
    BY <2>1, <2>2 DEF Entries
<1>2. ASSUME NEW e \in Entry, Slot(e) PROVE Entries'
  BY <1>2, EntryTaken DEF Slot
<1>3. NoEntries \in [0..MAX_CNT -> Entry]
  BY DEF NoEntries, Blank, Entry, Works, Codes
<1>4. CASE MainLoopEnds \/ Crash \/ LogViewed \/ LogCleared
  <2>1. dBl' \in {NoEntries, dBl, Loaded(dBl)}
    BY <1>4 DEF MainLoopEnds, Crash, Gone, LogViewed, Pop, LogCleared
  <2> QED
    BY <1>1, <1>3, <2>1, LoadedTyped DEF Entries
<1>5. CASE Launch
  <2>1. [name |-> NoName, work |-> "start", code |-> "J000"] \in Entry
    BY DEF Entry, Works, Codes
  <2>2. PICK d \in {NoEntries, Loaded(NoEntries)} : \E i :
          dBl' = [d EXCEPT ![i] = [name |-> NoName, work |-> "start", code |-> "J000"]]
    BY <1>5 DEF Launch
  <2>3. d \in [0..MAX_CNT -> Entry]
    BY <1>3, LoadedTyped
  <2> QED
    BY <2>1, <2>2, <2>3 DEF Entries
<1>6. ASSUME NEW f \in Files, PassClicked(f) PROVE Entries'
  <2>1. [dBl[colcnt] EXCEPT !.name = f] \in Entry /\ [name |-> f, work |-> "pass", code |-> "J100"] \in Entry
    BY <1>1 DEF Entry, Works, Codes
  <2> QED
    BY <1>2, <1>6, <2>1 DEF PassClicked
<1>7. CASE TempClicked \/ TrimClicked
  <2>1. /\ [dBl[colcnt] EXCEPT !.name = NoName] \in Entry
        /\ [name |-> NoName, work |-> "temp", code |-> "J100"] \in Entry
        /\ [name |-> NoName, work |-> "trim", code |-> "J100"] \in Entry
    BY <1>1 DEF Entry, Works, Codes
  <2> QED
    BY <1>2, <1>7, <2>1 DEF TempClicked, TrimClicked
<1>8. CASE WindowClosed \/ Scanned
  <2>1. /\ [name |-> dBl[colcnt].name, work |-> "end", code |-> "J000"] \in Entry
        /\ [name |-> dBl[colcnt].name, work |-> "temp", code |-> "J000"] \in Entry
    BY <1>1 DEF Entry, Works, Codes
  <2> QED
    BY <1>2, <1>8, <2>1 DEF WindowClosed, Scanned, Prepare
<1>9. CASE Open
  <2> DEFINE heir(code) == [name |-> dBl[colcnt - 1].name, work |-> dBl[colcnt - 1].work,
                            code |-> code]
  <2>1. heir(dBl[colcnt].code) \in Entry /\ heir("J001") \in Entry
    BY <1>1 DEF Entry, Codes
  <2>2. Slot(heir(dBl[colcnt].code)) \/ Slot(heir("J001"))
    BY <1>9 DEF Open
  <2> QED
    BY <1>2, <2>1, <2>2
<1>10. CASE Remove
  <2>1. Top.file \in Files \cup {NoName}
    BY <1>10, TopFacts DEF Remove, At, StackShape, Frames
  <2> DEFINE e(code) == [name |-> Top.file, work |-> dBl[colcnt].work, code |-> code]
  <2>2. e("J000") \in Entry /\ e("J004") \in Entry
    BY <1>1, <2>1 DEF Entry, Codes
  <2>3. Slot(e("J000")) \/ Slot(e("J004")) \/ dBl' = dBl
    BY <1>10 DEF Remove
  <2> QED
    BY <1>2, <2>2, <2>3 DEF Entries
<1>11. CASE Trim \/ Trimmed
  <2>1. /\ [dBl[colcnt] EXCEPT !.work = "trim"] \in Entry
        /\ \A c \in {"J000", "J003"} : [dBl[colcnt] EXCEPT !.code = c] \in Entry
    BY <1>1 DEF Entry, Works, Codes
  <2> QED
    BY <1>2, <1>11, <2>1 DEF Trim, Trimmed
<1>12. CASE \/ PushUnopened \/ Sent \/ Expired \/ Authenticate \/ AuthSwitch \/ Scan
            \/ Return \/ UNCHANGED vars
  BY <1>12 DEF Entries, PushUnopened, Sent, Expired, Authenticate, AuthSwitch, Scan, Return, vars,
     globals
<1> QED
  BY <1>4, <1>5, <1>6, <1>7, <1>8, <1>9, <1>10, <1>11, <1>12 DEF Next, Step, User

(* auth_cnt, colcnt and the entries, whatever handlers run inside each     *)
(* other: of their types, the counter that of the table, and the retries   *)
(* those of an authentication in progress.                                 *)
THEOREM GlobalsAreSound ==
  ASSUME ClientAssumption PROVE Spec /\ []InArray => []GlobalsSound
<1> DEFINE Typed == Counted /\ Scalars /\ LogTyped /\ Entries
<1>1. Init => Typed
  <2> SUFFICES ASSUME Init PROVE Typed
    OBVIOUS
  <2>1. DOMAIN Client_Log = {}
    BY EmptySeq DEF Init
  <2>2. NoEntries \in [0..MAX_CNT -> Entry]
    BY DEF NoEntries, Blank, Entry, Works, Codes
  <2>3. Counted /\ LogTyped /\ Entries
    BY <2>1, <2>2 DEF Init, Counted, LogTyped, Entries
  <2>4. Scalars
    <3>1. /\ proc = "down" /\ chk_method = 0 /\ auth_result = 0 /\ auth_cnt = 0
          /\ closed = FALSE /\ quit = FALSE /\ leaving = FALSE /\ intruded = FALSE /\ mixed = FALSE
      BY DEF Init
    <3>2. {closed, quit, leaving, intruded, mixed} \subseteq BOOLEAN
      BY <3>1, Zenon
    <3>3. proc \in {"down", "starting", "running"} /\ chk_method \in {0, 1}
          /\ auth_result \in {0, 1} /\ auth_cnt \in 0..3
      BY <3>1
    <3> QED
      BY <3>2, <3>3 DEF Scalars
  <2> QED
    BY <2>3, <2>4
<1>2. Base /\ Typed /\ InArray /\ [Next]_vars => Typed'
  BY CountedNext, ScalarsNext, LogTypedNext, EntriesNext DEF Base
<1>3. Base /\ Typed /\ InArray => ClientTypeOK
  BY DEF Base, StackShape, LogShape, Counted, Scalars, LogTyped, Entries, InArray, ClientTypeOK
<1>4. ClientTypeOK /\ CountMatchesTable /\ RetriesRestored => GlobalsSound
  BY DEF GlobalsSound
<1> HIDE DEF Typed
<1>5. Spec /\ []InArray => []ClientTypeOK
  BY <1>1, <1>2, <1>3, BaseKept, PTL DEF Spec
<1> QED
  BY <1>4, <1>5, CounterMatchesTable, RetriesAreRestored, PTL

-----------------------------------------------------------------------------
(* The data of a file (FileEraser).                                        *)

Eraser == INSTANCE FileEraser

EraserInv == FileTypeOK /\ OwnsWritten /\ OldDataStays /\ BufferOfLastTurn /\ FinalData

(* A turn fills the buffer with random bytes or one of the two patterns.   *)
LEMMA BufferData == FilledAt(size) = Eraser!Filled /\ Eraser!Filled \in {"FF", "96", "random"}
  BY DEF FilledAt, Eraser!Filled, Pattern, Eraser!Pattern

(* The instance means the same by it.                                      *)
LEMMA SameCount == ASSUME NEW S PROVE Eraser!Cardinality(S) = Cardinality(S)
  BY DEF Cardinality, Eraser!Cardinality

(* Before fopen nothing is written and the buffer is empty.                *)
LEMMA EraserInit == Eraser!Init => EraserInv
<1> SUFFICES ASSUME Eraser!Init PROVE EraserInv
  OBVIOUS
<1>1. FileTypeOK
  BY DEF Eraser!Init, FileTypeOK, NoData, Eraser!NoData
<1>2. OwnsWritten
  BY DEF Eraser!Init, OwnsWritten
<1>3. OldDataStays
  BY SameCount DEF Eraser!Init, OldDataStays, BlocksFor, Eraser!BlocksFor
<1>4. BufferOfLastTurn /\ FinalData
  BY DEF Eraser!Init, BufferOfLastTurn, FinalData, NoData, Eraser!NoData
<1> QED
  BY <1>1, <1>2, <1>3, <1>4 DEF EraserInv

(* A flush writes the buffer to the one block of the file.                 *)
LEMMA FlushFacts ==
  ASSUME EraserInv, pc = "loop", Eraser!Flush
  PROVE  /\ own' = written' /\ own' \subseteq Blocks
         /\ written' = {} \/ \E b \in Blocks : written' = {b}
         /\ data' \in [Blocks -> {"secret", "other", "FF", "96", "random"}]
         /\ \A b \in Blocks \ written' : data'[b] = data[b]
         /\ \A b \in written' : data'[b] # "secret"
         /\ buf # NoData => \A b \in written' : data'[b] = buf
         /\ written \subseteq written'
         /\ buf = NoData => written' = written
<1>1. own = written /\ (written = {} \/ \E b \in Blocks : written = {b})
  BY DEF EraserInv, OwnsWritten
<1>2. /\ data \in [Blocks -> {"secret", "other", "FF", "96", "random"}]
      /\ buf \in {NoData, "FF", "96", "random"} /\ own \subseteq Blocks
      /\ \A b \in written : data[b] # "secret"
  BY DEF EraserInv, FileTypeOK, OldDataStays
<1>3. CASE buf = NoData
  BY <1>1, <1>2, <1>3 DEF Eraser!Flush, NoData, Eraser!NoData
<1>4. CASE buf # NoData
  <2>1. PICK b \in Blocks :
          /\ IF own = {} THEN TRUE ELSE b \in own
          /\ own' = own \cup {b}
          /\ data' = [data EXCEPT ![b] = buf]
          /\ written' = written \cup {b}
    BY <1>4 DEF Eraser!Flush, NoData, Eraser!NoData
  <2>2. written' = {b}
    BY <1>1, <2>1
  <2> QED
    BY <1>1, <1>2, <1>4, <2>1, <2>2
<1> QED
  BY <1>3, <1>4

(* Old data that is not overwritten stays.                                 *)
LEMMA FlushKeeps ==
  ASSUME EraserInv, pc = "loop", Eraser!Flush, st_size' = st_size
  PROVE  OldDataStays'
<1>1. PICK s \in SUBSET Blocks : /\ Cardinality(s) = BlocksFor(st_size)
                                 /\ \A b \in s \ written : data[b] = "secret"
  BY DEF EraserInv, OldDataStays
<1>2. \A b \in s \ written' : data'[b] = "secret"
  BY <1>1, FlushFacts
<1>3. Cardinality(s) = BlocksFor(st_size')
  BY <1>1
<1> QED
  BY <1>1, <1>2, <1>3, FlushFacts DEF OldDataStays, BlocksFor

(* Every step of func_file_eraser, and a crash, keeps the invariant.       *)
LEMMA EraserNext == EraserInv /\ [Eraser!Next]_(Eraser!vars) => EraserInv'
<1> SUFFICES ASSUME EraserInv, [Eraser!Next]_(Eraser!vars) PROVE EraserInv'
  OBVIOUS
<1> USE EraserAssumption
<1>0. FileTypeOK /\ OwnsWritten /\ OldDataStays /\ BufferOfLastTurn /\ FinalData
  BY DEF EraserInv
<1>1. CASE Eraser!Truncate
  <2>1. FileTypeOK' /\ OwnsWritten'
    BY <1>0, <1>1 DEF Eraser!Truncate, FileTypeOK, OwnsWritten
  <2>2. OldDataStays'
    BY <1>0, <1>1 DEF Eraser!Truncate, OldDataStays, BlocksFor
  <2>3. BufferOfLastTurn' /\ FinalData'
    BY <1>0, <1>1 DEF Eraser!Truncate, BufferOfLastTurn, FinalData
  <2> QED
    BY <2>1, <2>2, <2>3 DEF EraserInv
<1>2. CASE Eraser!Turn
  <2>1. /\ pc = "loop" /\ pc' = "loop" /\ Eraser!Flush /\ buf' = Eraser!Filled
        /\ size < st_size /\ size' = size + ERASER_SIZE
        /\ UNCHANGED <<type, st_size, named>>
    BY <1>2 DEF Eraser!Turn
  <2>2. Eraser!Filled \in {"FF", "96", "random"} /\ Eraser!Filled = FilledAt(size)
    BY BufferData
  <2>3. FileTypeOK'
    BY <1>0, <2>1, <2>2, FlushFacts DEF FileTypeOK
  <2>4. OwnsWritten'
    BY <2>1, FlushFacts DEF OwnsWritten
  <2>5. OldDataStays'
    BY <2>1, FlushKeeps
  <2>6. BufferOfLastTurn'
    <3>1. size \in Nat /\ size' - ERASER_SIZE = size /\ size' > 0
      BY <1>0, <2>1 DEF FileTypeOK
    <3>2. size = 0 \/ size >= ERASER_SIZE
      BY <1>0, <2>1, <3>1 DEF BufferOfLastTurn
    <3>3. buf' = (IF size' - ERASER_SIZE < ERASER_SIZE THEN "random" ELSE Pattern')
      BY <2>1, <2>2, <3>1 DEF FilledAt, Pattern
    <3> QED
      BY <2>1, <3>1, <3>2, <3>3 DEF BufferOfLastTurn, FilledAt
  <2>7. FinalData'
    BY <2>1 DEF FinalData
  <2> QED
    BY <2>3, <2>4, <2>5, <2>6, <2>7 DEF EraserInv
<1>3. CASE Eraser!Close
  <2>1. /\ pc = "loop" /\ pc' = "rename" /\ Eraser!Flush /\ buf' = NoData /\ size >= st_size
        /\ UNCHANGED <<type, st_size, size, named>>
    BY <1>3 DEF Eraser!Close, NoData, Eraser!NoData
  <2>2. FileTypeOK'
    BY <1>0, <2>1, FlushFacts DEF FileTypeOK
  <2>3. OwnsWritten'
    BY <2>1, FlushFacts DEF OwnsWritten
  <2>4. OldDataStays'
    BY <2>1, FlushKeeps
  <2>5. BufferOfLastTurn'
    BY <2>1 DEF BufferOfLastTurn
  <2>6. FinalData'
    <3>1. size \in Nat /\ st_size \in Nat
      BY <1>0 DEF FileTypeOK
    <3>2. CASE size = 0
      <4>1. written' = {}
        BY <1>0, <2>1, <3>2, FlushFacts DEF BufferOfLastTurn
      <4> QED
        BY <4>1 DEF FinalData
    <3>3. CASE size > 0
      <4>1. /\ buf = FilledAt(size - ERASER_SIZE)
            /\ size - ERASER_SIZE < ERASER_SIZE <=> st_size <= ERASER_SIZE
        BY <1>0, <2>1, <3>1, <3>3 DEF BufferOfLastTurn
      <4>2. buf = IF st_size <= ERASER_SIZE THEN "random" ELSE Pattern
        BY <4>1 DEF FilledAt
      <4>3. buf # NoData
        BY <4>2 DEF Pattern, NoData
      <4>4. \A b \in written' : data'[b] = buf
        BY <2>1, <4>3, FlushFacts
      <4>5. st_size' = st_size /\ Pattern' = Pattern
        BY <2>1 DEF Pattern
      <4> QED
        BY <4>2, <4>4, <4>5 DEF FinalData
    <3> QED
      BY <3>1, <3>2, <3>3
  <2> QED
    BY <2>2, <2>3, <2>4, <2>5, <2>6 DEF EraserInv
<1>4. CASE Eraser!Remove
  <2>1. /\ pc = "rename" /\ UNCHANGED <<type, st_size, size, buf, data, written>>
        /\ \/ named' = FALSE /\ own' = {} /\ pc' = "done"
           \/ named' \in BOOLEAN /\ pc' = "failed" /\ own' = own
    BY <1>4 DEF Eraser!Remove
  <2>2. FileTypeOK' /\ OwnsWritten'
    BY <1>0, <2>1 DEF FileTypeOK, OwnsWritten
  <2>3. OldDataStays'
    BY <1>0, <2>1 DEF OldDataStays, BlocksFor
  <2>4. BufferOfLastTurn' /\ FinalData'
    BY <1>0, <2>1 DEF BufferOfLastTurn, FinalData, Pattern
  <2> QED
    BY <2>2, <2>3, <2>4 DEF EraserInv
<1>5. CASE Eraser!Crash
  <2>1. /\ pc \in {"loop", "rename"} /\ pc' = "dead" /\ buf' = NoData
        /\ UNCHANGED <<type, st_size, size, named, own, data, written>>
    BY <1>5 DEF Eraser!Crash, NoData, Eraser!NoData
  <2>2. FileTypeOK' /\ OwnsWritten'
    BY <1>0, <2>1 DEF FileTypeOK, OwnsWritten
  <2>3. OldDataStays'
    BY <1>0, <2>1 DEF OldDataStays, BlocksFor
  <2>4. BufferOfLastTurn' /\ FinalData'
    BY <2>1 DEF BufferOfLastTurn, FinalData
  <2> QED
    BY <2>2, <2>3, <2>4 DEF EraserInv
<1>6. CASE UNCHANGED Eraser!vars
  BY <1>0, <1>6 DEF Eraser!vars, EraserInv, FileTypeOK, OwnsWritten, OldDataStays, BlocksFor,
     BufferOfLastTurn, FinalData, FilledAt, Pattern
<1> QED
  BY <1>1, <1>2, <1>3, <1>4, <1>5, <1>6 DEF Eraser!Next

(* The invariant the three theorems follow from.                           *)
LEMMA EraserCorrect == Eraser!Spec => []EraserInv
  BY EraserInit, EraserNext, PTL DEF Eraser!Spec

(* From the truncation (line 1713) on nobody reads old data from the file, *)
(* whatever its length, also after a crash or a failed remove.             *)
THEOREM NothingOldIsRead == Eraser!Spec => []ReadsNothingOld
<1>1. EraserInv => ReadsNothingOld
  BY DEF EraserInv, OwnsWritten, OldDataStays, ReadsNothingOld, FileTypeOK
<1> QED
  BY <1>1, EraserCorrect, PTL

(* Of a file of any length one block is overwritten: every turn of the     *)
(* loop seeks to offset 0 (lines 1731 to 1774).                            *)
THEOREM OneBlockIsWritten == Eraser!Spec => []OneBlockWritten
<1>1. EraserInv => OneBlockWritten
  <2> SUFFICES ASSUME EraserInv PROVE OneBlockWritten
    OBVIOUS
  <2> DEFINE secrets == {b \in Blocks : data[b] = "secret"}
  <2>1. IsFiniteSet(Blocks)
    BY EraserAssumption
  <2>2. written \subseteq Blocks /\ (written = {} \/ \E b \in Blocks : written = {b})
    BY DEF EraserInv, FileTypeOK, OwnsWritten
  <2>3. Cardinality(written) <= 1
    BY <2>2, FS_EmptySet, FS_Singleton
  <2>4. PICK s \in SUBSET Blocks : /\ Cardinality(s) = BlocksFor(st_size)
                                   /\ \A b \in s \ written : data[b] = "secret"
    BY DEF EraserInv, OldDataStays
  <2>5. IsFiniteSet(s) /\ Cardinality(s) \in Nat
    BY <2>1, <2>4, FS_Subset, FS_CardinalityType
  <2>6. PICK r \in SUBSET s : r \subseteq secrets /\ Cardinality(r) >= Cardinality(s) - 1
    <3>1. CASE written = {}
      <4>1. s \subseteq secrets
        BY <2>4, <3>1
      <4> QED
        BY <2>5, <4>1
    <3>2. CASE \E b \in Blocks : written = {b}
      <4>1. PICK b \in Blocks : written = {b}
        BY <3>2
      <4>2. s \ {b} \subseteq secrets
        BY <2>4, <4>1
      <4>3. Cardinality(s \ {b}) >= Cardinality(s) - 1
        BY <2>5, FS_RemoveElement
      <4>4. s \ {b} \in SUBSET s
        OBVIOUS
      <4> QED
        BY <4>2, <4>3, <4>4
    <3> QED
      BY <2>2, <3>1, <3>2
  <2>7. IsFiniteSet(secrets) /\ Cardinality(secrets) \in Nat
    BY <2>1, FS_Subset, FS_CardinalityType
  <2>8. Cardinality(r) <= Cardinality(secrets) /\ Cardinality(r) \in Nat
    BY <2>6, <2>7, FS_Subset, FS_CardinalityType
  <2>9. Cardinality(secrets) >= BlocksFor(st_size) - 1
    BY <2>4, <2>5, <2>6, <2>7, <2>8
  <2> QED
    BY <2>3, <2>9 DEF OneBlockWritten
<1> QED
  BY <1>1, EraserCorrect, PTL

(* What the one block holds at the end: random bytes for a file of up to   *)
(* ERASER_SIZE bytes, the last pattern for a longer one.                   *)
THEOREM FinalDataIsLast == Eraser!Spec => []FinalData
<1>1. EraserInv => FinalData
  BY DEF EraserInv
<1> QED
  BY <1>1, EraserCorrect, PTL

(* All of it together, which is what the run checks: types, nothing old to *)
(* read in the file, one block written, and with what.                     *)
THEOREM ErasureIsSafe == Eraser!Spec => []ErasureSafe
<1>1. EraserInv => FileTypeOK
  BY DEF EraserInv
<1> QED
  BY <1>1, EraserCorrect, NothingOldIsRead, OneBlockIsWritten, FinalDataIsLast, PTL
  DEF ErasureSafe

===============================================================================
