--------------------------- MODULE SettingsProofs ---------------------------
(***************************************************************************)
(* Proofs about Settings for any number of concurrent requests: its types, *)
(* and that a POST which was answered with 200 and met no other POST is    *)
(* saved for good.                                                         *)
(***************************************************************************)
EXTENDS Settings, TLAPS

(***************************************************************************)
(* Applied: whatever Update refuses or accepts, every field stays within   *)
(* the range that it checks.                                               *)
(***************************************************************************)
LEMMA AppliedType ==
    ASSUME NEW s \in Values, NEW u \in UpdateBody
    PROVE  Applied(s, u) \in Values
<1>1. ASSUME ~ BadConcurrency(u)
      PROVE  ValueOf(u.concurrency, s.concurrency) \in 1 .. 10
  BY <1>1 DEF BadConcurrency, ValueOf, Values, UpdateBody
<1>2. ASSUME ~ BadMaxAttempts(u)
      PROVE  ValueOf(u.maxAttempts, s.maxAttempts) \in 1 .. 20
  BY <1>2 DEF BadMaxAttempts, ValueOf, Values, UpdateBody
<1>3. Applied(s, u).concurrency \in 1 .. 10
  BY <1>1 DEF Applied, Values
<1>4. Applied(s, u).maxAttempts \in 1 .. 20
  BY <1>2 DEF Applied, Values
<1>5. Applied(s, u).autoDecrypt \in BOOLEAN
  <2>1. s.autoDecrypt \in BOOLEAN /\ ("true" \in u.autoDecrypt) \in BOOLEAN
    BY DEF Values
  <2>2. Applied(s, u).autoDecrypt =
          IF Refused(u) \/ u.autoDecrypt = {} THEN s.autoDecrypt ELSE "true" \in u.autoDecrypt
    BY DEF Applied
  <2>3. QED
    BY <2>1, <2>2, Zenon
<1>6. QED
  BY <1>3, <1>4, <1>5 DEF Applied, Values

(***************************************************************************)
(* Size: the marshalled text is never empty.                               *)
(***************************************************************************)
LEMMA SizeType ==
    ASSUME NEW v \in Values
    PROVE  Size(v) \in Nat /\ Size(v) > 0
BY DEF Size, Digits, Values

(***************************************************************************)
(* The defaults, and a settings.json that does not exist.                  *)
(***************************************************************************)
LEMMA DefaultType == Default \in Values /\ Absent \in File /\ Written(Default) \in File
<1>1. Default \in Values
  BY DEF Default, Values
<1>2. QED
  BY <1>1, SizeType DEF Absent, Written, File

(***************************************************************************)
(* Every step of a request, a start and a crash keeps the types.           *)
(***************************************************************************)
LEMMA TypeStep == TypeOK /\ [Next]_vars => TypeOK'
<1> SUFFICES ASSUME TypeOK, [Next]_vars PROVE TypeOK'
  OBVIOUS
<1> USE DEF TypeOK
<1>d. Default \in Values /\ Idle \in [pc : HandlerPC, data : Values]
  BY DefaultType DEF Idle, HandlerPC
<1>1. CASE Start
  <2>1. CASE file.exists
    <3>1. up' \in BOOLEAN
      BY <1>1, <2>1, Zenon DEF Start, Readable
    <3>2. mem' \in Values /\ file' \in File /\ UNCHANGED <<crashes, handler, history>>
      BY <1>1, <2>1 DEF Start, File, history
    <3>3. QED
      BY <3>1, <3>2 DEF history
  <2>2. CASE ~ file.exists
    BY <1>1, <2>2, DefaultType DEF Start
  <2>3. QED
    BY <2>1, <2>2
<1>2. CASE StartFails
  BY <1>2 DEF StartFails, File, history
<1>3. CASE Crash
  <2>1. crashes' \in 0 .. MaxCrashes
    BY <1>3, SettingsAssumption DEF Crash
  <2>2. alone' \in BOOLEAN
    BY <1>3, Zenon DEF Crash
  <2>3. QED
    BY <1>3, <1>d, <2>1, <2>2 DEF Crash
<1>4. ASSUME NEW a \in Admins, Request(a) PROVE TypeOK'
  <2>1. ASSUME NEW u \in Updates, Update(a, u) PROVE TypeOK'
    <3>1. alone' \in BOOLEAN
      BY <2>1, Zenon DEF Update
    <3>2. QED
      BY <2>1, <3>1, AppliedType, SettingsAssumption DEF Update, Goto, HandlerPC
  <2>2. CASE Marshal(a)
    BY <2>2 DEF Marshal, HandlerPC
  <2>3. CASE Truncate(a)
    BY <2>3 DEF Truncate, Goto, File, HandlerPC, history
  <2>4. CASE WriteFile(a)
    BY <2>4, SizeType DEF WriteFile, Goto, File, HandlerPC, history
  <2>5. CASE SaveFails(a)
    BY <2>5, <1>d DEF SaveFails
  <2>6. CASE Answer(a)
    BY <2>6, <1>d DEF Answer
  <2>7. CASE Get(a)
    BY <2>7 DEF Get
  <2>8. QED
    BY <1>4, <2>1, <2>2, <2>3, <2>4, <2>5, <2>6, <2>7 DEF Request
<1>5. CASE UNCHANGED vars
  BY <1>5 DEF vars, history
<1>6. QED
  BY <1>1, <1>2, <1>3, <1>4, <1>5 DEF Next

(***************************************************************************)
(* dlqd starts with the types in order.                                    *)
(***************************************************************************)
LEMMA InitType == Init => TypeOK
<1> SUFFICES ASSUME Init PROVE TypeOK
  OBVIOUS
<1>1. up \in BOOLEAN
  BY Zenon DEF Init
<1>c. crashes \in 0 .. MaxCrashes
  BY SettingsAssumption DEF Init
<1>2. /\ mem \in Values /\ file \in File
      /\ told \in Values /\ saved \in SUBSET Values /\ newer \in SUBSET Values
  BY DefaultType DEF Init
<1>b. alone \in BOOLEAN
  BY Zenon DEF Init
<1>3. handler \in [Admins -> [pc : HandlerPC, data : Values]]
  BY DefaultType DEF Init, Idle, HandlerPC
<1>4. QED
  BY <1>1, <1>b, <1>c, <1>2, <1>3 DEF TypeOK

(***************************************************************************)
(* The settings in force always lie in the ranges that Update checks, for  *)
(* any number of concurrent requests, through crashes and failed saves.    *)
(***************************************************************************)
THEOREM SettingsTypeCorrect == Spec => []TypeOK
BY InitType, TypeStep, PTL DEF Spec

(***************************************************************************)
(* Where the bytes of settings.json come from.  A text that is about to be *)
(* written was marshalled since the last POST that was alone; as long as a *)
(* POST is alone it is the only one, and it marshals, writes and reports   *)
(* the settings in force, and nothing is marshalled between its reply and  *)
(* the next POST.  Before the first start there is no file.                *)
(***************************************************************************)
LoneInv ==
    alone => \A a \in Admins :
        handler[a].pc # "idle" =>
            /\ \A b \in Admins : handler[b].pc # "idle" => a = b
            /\ handler[a].pc \in {"open", "write"} => handler[a].data = mem
            /\ handler[a].pc = "write" => file.size = 0
            /\ handler[a].pc = "answer" => file = Written(mem)

SavesInv ==
    /\ TypeOK
    /\ SavedUpdateKept
    /\ LoneInv
    /\ (alone /\ Quiet) => newer = {}
    /\ ~ up => Quiet
    /\ ~ file.exists => ~ up /\ file = Absent /\ saved = {} /\ newer = {} /\ ~ alone
    /\ \A a \in Admins : handler[a].pc \in {"open", "write"} => handler[a].data \in newer

(***************************************************************************)
(* Every step keeps SavesInv, whatever other requests are doing.           *)
(***************************************************************************)
LEMMA SavesStep == SavesInv /\ [Next]_vars => SavesInv'
<1> SUFFICES ASSUME SavesInv, [Next]_vars PROVE SavesInv'
  OBVIOUS
<1>t. TypeOK /\ TypeOK'
  BY TypeStep DEF SavesInv
<1> USE <1>t DEF SavesInv
<1>1. CASE Start
  <2>1. Quiet' /\ LoneInv'
    BY <1>1 DEF Start, LoneInv, Quiet
  <2>2. CASE file.exists
    <3>1. /\ UNCHANGED <<file, saved, handler, told, alone, newer>>
          /\ up' => Readable(file) /\ mem' = file.text
      BY <1>1, <2>2 DEF Start
    <3>2. ASSUME NEW v \in saved, alone, Quiet, up' PROVE mem' = v
      BY <3>1, <3>2 DEF SavedUpdateKept, Written
    <3>3. SavedUpdateKept'
      BY <3>1, <3>2 DEF SavedUpdateKept, Quiet, Readable, Written
    <3>4. QED
      BY <2>1, <2>2, <3>1, <3>3 DEF Quiet
  <2>3. CASE ~ file.exists
    <3>1. SavedUpdateKept'
      BY <1>1, <2>3 DEF Start, SavedUpdateKept, Written
    <3>2. QED
      BY <1>1, <2>1, <2>3, <3>1 DEF Start, Written
  <2>4. QED
    BY <2>2, <2>3
<1>2. CASE StartFails
  BY <1>2 DEF StartFails, SavedUpdateKept, LoneInv, Quiet, Absent, history
<1>3. CASE Crash
  <2>1. LoneInv' /\ Quiet'
    BY <1>3 DEF Crash, LoneInv, Quiet, Idle
  <2>2. SavedUpdateKept'
    BY <1>3 DEF Crash, SavedUpdateKept
  <2>3. QED
    BY <1>3, <2>1, <2>2 DEF Crash, Quiet
<1>4. ASSUME NEW a \in Admins, Request(a) PROVE SavesInv'
  <2>1. ASSUME NEW u \in Updates, Update(a, u) PROVE SavesInv'
    <3>1. CASE Refused(u)
      BY <2>1, <3>1 DEF Update, SavedUpdateKept, LoneInv, Quiet, TypeOK
    <3>2. CASE ~ Refused(u)
      <4>1. LoneInv' /\ ~ Quiet'
        BY <2>1, <3>2 DEF Update, Goto, LoneInv, Quiet, TypeOK
      <4>2. SavedUpdateKept'
        BY <2>1, <3>2, <4>1 DEF Update, SavedUpdateKept
      <4>3. QED
        BY <2>1, <3>2, <4>1, <4>2 DEF Update, Goto, TypeOK
    <3>3. QED
      BY <3>1, <3>2
  <2>2. CASE Marshal(a)
    <3>1. LoneInv' /\ ~ Quiet' /\ up
      BY <2>2 DEF Marshal, LoneInv, Quiet, TypeOK
    <3>2. SavedUpdateKept'
      BY <2>2, <3>1 DEF Marshal, SavedUpdateKept
    <3>3. file.exists
      BY <3>1
    <3>4. QED
      BY <2>2, <3>1, <3>2, <3>3 DEF Marshal, TypeOK
  <2>3. CASE Truncate(a)
    <3>1. LoneInv' /\ ~ Quiet' /\ up
      BY <2>3 DEF Truncate, Goto, LoneInv, Quiet, TypeOK, File, history
    <3>2. SavedUpdateKept'
      BY <2>3, <3>1, SizeType DEF Truncate, SavedUpdateKept, Readable, TypeOK, File, history
    <3>3. QED
      BY <2>3, <3>1, <3>2 DEF Truncate, Goto, TypeOK, File, history
  <2>4. CASE WriteFile(a)
    <3>0. /\ handler'[a].pc = "answer"
          /\ \A b \in Admins \ {a} : handler'[b] = handler[b]
          /\ UNCHANGED <<up, mem, alone>>
      BY <2>4 DEF WriteFile, Goto, TypeOK, history
    <3>a. ~ Quiet' /\ up
      BY <2>4, <3>0 DEF WriteFile, Quiet
    <3>b. alone => file' = Written(mem)
      <4>1. alone => handler[a].data = mem /\ file.size = 0
        BY <2>4 DEF WriteFile, LoneInv
      <4>2. Size(mem) \in Nat /\ Size(mem) > 0
        BY SizeType DEF TypeOK
      <4>3. alone => ~ (file.size > Size(handler[a].data))
        BY <4>1, <4>2
      <4>4. alone => file' = [exists |-> TRUE, size |-> Size(mem), text |-> mem]
        BY <2>4, <4>1, <4>3 DEF WriteFile
      <4>5. QED
        BY <4>4 DEF Written
    <3>1. LoneInv' /\ ~ Quiet' /\ up
      <4>1. \A b \in Admins : alone /\ handler'[b].pc # "idle" => b = a
        BY <2>4, <3>0 DEF WriteFile, LoneInv
      <4>2. QED
        BY <3>0, <3>a, <3>b, <4>1 DEF LoneInv, Written
    <3>2. SavedUpdateKept'
      BY <2>4, <3>1 DEF WriteFile, SavedUpdateKept, history
    <3>3. QED
      BY <2>4, <3>1, <3>2 DEF WriteFile, Goto, TypeOK, history
  <2>5. CASE SaveFails(a)
    BY <2>5 DEF SaveFails, SavedUpdateKept, LoneInv, Quiet, Idle, TypeOK
  <2>6. CASE Answer(a)
    <3>1. LoneInv' /\ (~ up => Quiet')
      BY <2>6 DEF Answer, LoneInv, Quiet, Idle, TypeOK
    <3>2. SavedUpdateKept'
      <4>1. CASE alone
        BY <2>6, <4>1 DEF Answer, SavedUpdateKept, LoneInv, Written
      <4>2. CASE ~ alone
        BY <2>6, <4>2 DEF Answer, SavedUpdateKept
      <4>3. QED
        BY <4>1, <4>2
    <3>3. file.exists
      BY <2>6 DEF Answer, Quiet
    <3>4. \A b \in Admins : handler'[b].pc \in {"open", "write"} => handler'[b].data \in newer'
      BY <2>6 DEF Answer, LoneInv, Idle, TypeOK
    <3>5. QED
      BY <2>6, <3>1, <3>2, <3>3, <3>4 DEF Answer
  <2>7. CASE Get(a)
    BY <2>7 DEF Get, SavedUpdateKept, LoneInv, Quiet
  <2>8. QED
    BY <1>4, <2>1, <2>2, <2>3, <2>4, <2>5, <2>6, <2>7 DEF Request
<1>5. CASE UNCHANGED vars
  BY <1>5 DEF vars, history, SavedUpdateKept, LoneInv, Quiet
<1>6. QED
  BY <1>1, <1>2, <1>3, <1>4, <1>5 DEF Next

(***************************************************************************)
(* A POST /settings that is answered with 200 and met no other POST is     *)
(* saved for good, for any number of requests that run concurrently before *)
(* and after it, whatever crashes and whichever writes fail: see           *)
(* SavedUpdateKept.                                                        *)
(***************************************************************************)
THEOREM LoneUpdatesKept == Spec => []SavedUpdateKept
<1>1. Init => SavesInv
  <2> SUFFICES ASSUME Init PROVE SavesInv
    OBVIOUS
  <2>1. TypeOK
    BY InitType
  <2>2. QED
    BY <2>1 DEF Init, SavesInv, SavedUpdateKept, LoneInv, Quiet, Absent, Idle
<1>2. SavesInv /\ [Next]_vars => SavesInv'
  BY SavesStep
<1>3. SavesInv => SavedUpdateKept
  BY DEF SavesInv
<1>4. QED
  BY <1>1, <1>2, <1>3, PTL DEF Spec
=============================================================================
