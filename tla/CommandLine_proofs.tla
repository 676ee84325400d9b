---------------------------- MODULE CommandLine_proofs ---------------------------
(***************************************************************************)
(* What commands leave in their files, for every set of commands, of       *)
(* invocations and of paths, however they are interleaved and killed.      *)
(***************************************************************************)
EXTENDS CommandLine, SequenceTheorems, TLAPS

\* The steps of one command.
Step(c) ==
    \/ Start(c) \/ LoadConfig(c) \/ OpenConfig(c) \/ WriteConfig(c)
    \/ Redact(c) \/ WriteFiles(c) \/ Report(c) \/ Detect(c)
    \/ ReadFile(c) \/ Restore(c) \/ Inspect(c) \/ Serve(c) \/ Kill(c)

EarlyStages == {"not started", "loading", "creating"}

WritingStages == {"opening session", "writing session", "opening permit",
                  "writing permit", "printing"}

\* Before it writes its permit, a redaction has these stages only.
PermitlessStages == EarlyStages \cup {"writing config", "redact", "opening session",
                                      "writing session", "opening permit"}

CommandsTypeOK ==
    /\ DOMAIN stage = Commands
    /\ DOMAIN outcome = Commands
    /\ DOMAIN invocation = Commands
    /\ DOMAIN endedBefore = Commands
    /\ DOMAIN files = Paths

\* What a command is called with fits what it does.
Called(c) ==
    /\ stage[c] = "not started" => invocation[c].kind = "none"
    /\ stage[c] # "not started" => invocation[c] \in Invocations[c]
    /\ stage[c] \in WritingStages =>
          /\ invocation[c].kind = "redact"
          /\ invocation[c].session \in Paths
          /\ invocation[c].permit \in Paths
    /\ stage[c] \in {"redact", "detect", "restore", "inspect", "serve"} =>
          invocation[c].kind = stage[c]

\* A command that ended before another one started has ended.
EndedOnes(c) == \A d \in endedBefore[c] : d \in Commands /\ stage[d] = "ended"

\* How a redaction ends that has a session to write.
Ends(c) ==
    /\ outcome[c] # "none" => stage[c] = "ended"
    /\ outcome[c] = "printed" /\ invocation[c].kind = "redact"
       /\ invocation[c].session # "none"
       => invocation[c].permit # "none"

IsPermitOf(content, c) == content.type = "permit" /\ content.run = c

\* Nobody else writes the permit of a redaction.
NoPermitYet(c) ==
    stage[c] \in PermitlessStages => \A p \in Paths : ~IsPermitOf(files[p], c)

\* A redaction with two files of its own.
Separate(c) ==
    /\ invocation[c].kind = "redact"
    /\ Undisturbed(c)
    /\ invocation[c].session \in Paths
    /\ invocation[c].permit \in Paths
    /\ invocation[c].session # invocation[c].permit

\* What it has written so far.
Written(c) ==
    LET session == invocation[c].session
        permit == invocation[c].permit
    IN Separate(c) =>
         /\ stage[c] = "writing session" => files[session] = EmptyFile
         /\ stage[c] \in {"opening permit", "writing permit", "printing"} =>
               Holds(c, session, "session")
         /\ stage[c] = "writing permit" => files[permit] = EmptyFile
         /\ stage[c] = "printing" \/ outcome[c] = "printed" =>
               Holds(c, session, "session") /\ Holds(c, permit, "permit")
         /\ Holds(c, permit, "permit") => Holds(c, session, "session")

CommandsIInv ==
    /\ CommandsTypeOK
    /\ \A c \in Commands :
         Called(c) /\ EndedOnes(c) /\ Ends(c) /\ NoPermitYet(c) /\ Written(c)

--------------------------------------------------------------------------------

\* A step of d changes what d is at, and no file but one of its own while it writes.
Frame(d) ==
    /\ CommandsTypeOK'
    /\ \A e \in Commands \ {d} : /\ stage'[e] = stage[e]
                                 /\ outcome'[e] = outcome[e]
                                 /\ invocation'[e] = invocation[e]
                                 /\ endedBefore'[e] = endedBefore[e]
    /\ stage[d] # "ended"
    /\ stage'[d] \in EarlyStages => stage[d] \in EarlyStages
    /\ ~Start(d) => invocation' = invocation /\ endedBefore' = endedBefore
    /\ ~WriteFiles(d) => files' = files
    /\ files' # files => stage[d] \in WritingStages
    /\ \A p \in Paths :
          files'[p] # files[p] => p \in {invocation[d].session, invocation[d].permit}
    /\ \A p \in Paths, e \in Commands \ {d} :
          IsPermitOf(files'[p], e) => IsPermitOf(files[p], e)

LEMMA WriteFilesFrame ==
    ASSUME CommandsIInv, NEW d \in Commands, WriteFiles(d)
    PROVE  Frame(d)
<1>1. /\ stage[d] \in WritingStages /\ stage[d] # "ended"
      /\ UNCHANGED <<config, invocation, policy, read, restored, endedBefore>>
  BY DEF WriteFiles, WritingStages
<1>2. /\ CommandsTypeOK /\ invocation[d].session \in Paths /\ invocation[d].permit \in Paths
  BY <1>1 DEF CommandsIInv, Called
<1>3. \E path \in {invocation[d].session, invocation[d].permit} :
        \/ files' = files
        \/ files' = [files EXCEPT ![path] = EmptyFile]
        \/ files' = [files EXCEPT ![path] = Mixed]
        \/ \E type : files' = [files EXCEPT ![path] = Sealed(type, d)]
  BY DEF WriteFiles, Open, Write
<1>4. /\ stage'[d] \notin EarlyStages
      /\ DOMAIN stage' = Commands /\ DOMAIN outcome' = Commands
      /\ \A e \in Commands \ {d} : stage'[e] = stage[e] /\ outcome'[e] = outcome[e]
  BY <1>2 DEF WriteFiles, Open, Write, GoTo, End, CommandsTypeOK, EarlyStages
<1>5. /\ DOMAIN files' = Paths
      /\ \A p \in Paths :
          files'[p] # files[p] =>
            /\ p \in {invocation[d].session, invocation[d].permit}
            /\ \/ files'[p] \in {EmptyFile, Mixed}
               \/ \E type : files'[p] = Sealed(type, d)
  BY <1>2, <1>3 DEF CommandsTypeOK
<1>6. \A p \in Paths, e \in Commands \ {d} :
          IsPermitOf(files'[p], e) => IsPermitOf(files[p], e)
  BY <1>5 DEF IsPermitOf, EmptyFile, Mixed, Sealed
<1>7. QED
  BY <1>1, <1>2, <1>4, <1>5, <1>6 DEF Frame, CommandsTypeOK

\* What is configured decides where a command goes, never back to an early stage.
LEMMA LoadingFrame ==
    ASSUME CommandsIInv, NEW d \in Commands,
           LoadConfig(d) \/ OpenConfig(d) \/ WriteConfig(d)
    PROVE  Frame(d)
<1>1. CommandsTypeOK /\ Called(d)
  BY DEF CommandsIInv
<1>2. /\ stage[d] \in {"loading", "creating", "writing config"}
      /\ UNCHANGED <<files, invocation, endedBefore>>
  BY DEF LoadConfig, OpenConfig, WriteConfig
<1>3. invocation[d].kind \notin EarlyStages
  BY <1>1, <1>2, InvocationsAssumption DEF Called, EarlyStages
<1>4. /\ DOMAIN stage' = Commands /\ DOMAIN outcome' = Commands
      /\ \A e \in Commands \ {d} : stage'[e] = stage[e] /\ outcome'[e] = outcome[e]
      /\ stage'[d] \in EarlyStages => stage[d] \in EarlyStages
  BY <1>1, <1>3 DEF LoadConfig, OpenConfig, WriteConfig, Resolve, GoTo, End, CommandsTypeOK,
                    EarlyStages
<1>5. QED
  BY <1>1, <1>2, <1>4 DEF Frame, CommandsTypeOK

LEMMA StepFrame ==
    ASSUME CommandsIInv, NEW d \in Commands, Step(d)
    PROVE  Frame(d)
<1>0. CommandsTypeOK
  BY DEF CommandsIInv
<1>1. CASE Start(d)
  BY <1>0, <1>1 DEF Start, GoTo, Frame, CommandsTypeOK, EarlyStages
<1>2. CASE LoadConfig(d) \/ OpenConfig(d) \/ WriteConfig(d)
  BY <1>2, LoadingFrame
<1>3. CASE WriteFiles(d)
  BY <1>3, WriteFilesFrame
<1>4. CASE Redact(d)
  BY <1>0, <1>4 DEF Redact, GoTo, End, Frame, CommandsTypeOK, EarlyStages
<1>5. CASE Report(d) \/ Detect(d) \/ Inspect(d) \/ Serve(d) \/ Kill(d)
  BY <1>0, <1>5 DEF Report, Detect, Inspect, HasRead, Serve, Kill, End, Frame,
                    CommandsTypeOK, EarlyStages
<1>6. CASE ReadFile(d)
  BY <1>0, <1>6 DEF ReadFile, End, Frame, CommandsTypeOK, EarlyStages
<1>7. CASE Restore(d)
  BY <1>0, <1>7 DEF Restore, HasRead, End, Frame, CommandsTypeOK, EarlyStages
<1>8. QED
  BY <1>1, <1>2, <1>3, <1>4, <1>5, <1>6, <1>7 DEF Step

\* Who has been disturbed remains so.
LEMMA UndisturbedBefore ==
    ASSUME CommandsIInv, NEW c \in Commands, NEW d \in Commands, Step(d), ~Start(c),
           Undisturbed(c)'
    PROVE  Undisturbed(c)
<1>1. Frame(d)
  BY StepFrame
<1>2. invocation'[c] = invocation[c] /\ endedBefore'[c] = endedBefore[c]
  BY <1>1 DEF Frame
<1>3. PathsOf(c)' = PathsOf(c)
  BY <1>2 DEF PathsOf
<1>4. ASSUME NEW e \in Commands \ {c}
      PROVE  \/ e \in endedBefore[c] \/ stage[e] \in EarlyStages
             \/ PathsOf(e) \cap PathsOf(c) = {}
  <2>1. \/ e \in endedBefore'[c] \/ stage'[e] \in EarlyStages
        \/ PathsOf(e)' \cap PathsOf(c)' = {}
    BY DEF Undisturbed, EarlyStages
  <2>2. CASE e # d
    <3>1. PathsOf(e)' = PathsOf(e) /\ stage'[e] = stage[e]
      BY <1>1, <2>2 DEF Frame, PathsOf
    <3>2. QED
      BY <1>2, <1>3, <2>1, <3>1
  <2>3. CASE e = d
    <3>1. CASE Start(d)
      BY <2>3, <3>1 DEF Start, EarlyStages
    <3>2. CASE ~Start(d)
      <4>1. PathsOf(e)' = PathsOf(e)
        BY <1>1, <3>2 DEF Frame, PathsOf
      <4>2. QED
        BY <1>1, <1>2, <1>3, <2>1, <2>3, <4>1 DEF Frame
    <3>3. QED
      BY <3>1, <3>2
  <2>4. QED
    BY <2>2, <2>3
<1>5. QED
  BY <1>4 DEF Undisturbed, EarlyStages

\* A step of another command leaves the files of a separate redaction alone.
LEMMA FilesUndisturbed ==
    ASSUME CommandsIInv, NEW c \in Commands, NEW d \in Commands \ {c}, Step(d),
           Separate(c)'
    PROVE  /\ Separate(c)
           /\ files'[invocation[c].session] = files[invocation[c].session]
           /\ files'[invocation[c].permit] = files[invocation[c].permit]
<1>1. Frame(d) /\ ~Start(c)
  <2>1. Frame(d)
    BY StepFrame
  <2>2. stage'[c] = stage[c] /\ DOMAIN stage = Commands
    BY <2>1 DEF Frame, CommandsIInv, CommandsTypeOK
  <2>3. QED
    BY <2>1, <2>2 DEF Start, GoTo
<1>2. invocation'[c] = invocation[c]
  BY <1>1 DEF Frame
<1>3. Separate(c)
  BY <1>1, <1>2, UndisturbedBefore DEF Separate
<1>4. CASE files' = files
  BY <1>3, <1>4
<1>5. CASE files' # files
  <2>1. stage[d] \in WritingStages
    BY <1>1, <1>5 DEF Frame
  <2>2. invocation[d].kind = "redact"
    BY <2>1 DEF CommandsIInv, Called
  <2>3. d \notin endedBefore[c]
    BY <2>1 DEF CommandsIInv, EndedOnes, WritingStages
  <2>4. stage[d] \notin EarlyStages
    BY <2>1 DEF WritingStages, EarlyStages
  <2>5. PathsOf(d) \cap PathsOf(c) = {}
    BY <1>3, <2>3, <2>4 DEF Separate, Undisturbed, EarlyStages
  <2>6. \A p \in PathsOf(c) : p \notin {invocation[d].session, invocation[d].permit}
    BY <2>2, <2>5 DEF PathsOf
  <2>7. invocation[c].session \in PathsOf(c) /\ invocation[c].permit \in PathsOf(c)
    BY <1>3 DEF Separate, PathsOf
  <2>8. QED
    BY <1>1, <1>3, <2>6, <2>7 DEF Frame, Separate
<1>6. QED
  BY <1>4, <1>5

LEMMA CalledKept ==
    ASSUME CommandsIInv, NEW d \in Commands, Step(d)
    PROVE  Called(d)' /\ Ends(d)'
<1>0. CommandsTypeOK /\ Called(d) /\ Ends(d)
  BY DEF CommandsIInv
<1>1. CASE Start(d)
  <2>1. /\ stage'[d] = "loading" /\ outcome'[d] = "none"
        /\ invocation'[d] \in Invocations[d]
    BY <1>0, <1>1 DEF Start, GoTo, CommandsTypeOK, Ends
  <2>2. QED
    BY <2>1 DEF Called, Ends, WritingStages
<1>2. CASE LoadConfig(d) \/ OpenConfig(d) \/ WriteConfig(d)
  <2>1. stage[d] \in {"loading", "creating", "writing config"} /\ invocation' = invocation
    BY <1>2 DEF LoadConfig, OpenConfig, WriteConfig
  <2>2. /\ invocation[d] \in Invocations[d]
        /\ invocation[d].kind \notin WritingStages \cup {"not started", "ended"}
    BY <1>0, <2>1, InvocationsAssumption DEF Called, WritingStages
  <2>3. \/ stage'[d] \in {"creating", "writing config", "ended"} /\ outcome'[d] # "printed"
        \/ stage'[d] = invocation[d].kind /\ outcome'[d] = outcome[d]
    BY <1>0, <1>2, <2>1 DEF LoadConfig, OpenConfig, WriteConfig, Resolve, GoTo, End,
                            CommandsTypeOK, Ends
  <2>4. outcome[d] = "none"
    BY <1>0, <2>1 DEF Ends
  <2>5. outcome'[d] # "none" => stage'[d] = "ended"
    BY <1>0, <1>2, <2>4 DEF LoadConfig, OpenConfig, WriteConfig, Resolve, GoTo, End,
                            CommandsTypeOK
  <2>6. QED
    BY <2>1, <2>2, <2>3, <2>4, <2>5 DEF Called, Ends, WritingStages
<1>3. CASE Redact(d)
  <2>1. stage[d] = "redact" /\ invocation' = invocation /\ invocation[d].kind = "redact"
    BY <1>0, <1>3 DEF Redact, Called
  <2>2. invocation[d] \in Invocations[d] /\ outcome[d] = "none"
    BY <1>0, <2>1 DEF Called, Ends
  <2>3. {invocation[d].session, invocation[d].permit} \subseteq Paths \cup {"none"}
    BY <2>1, <2>2, InvocationsAssumption
  <2>4. \/ stage'[d] = "ended" /\ outcome'[d] = "failed"
        \/ stage'[d] = "ended" /\ outcome'[d] = "printed" /\ invocation[d].session = "none"
        \/ /\ stage'[d] = "opening session" /\ outcome'[d] = "none"
           /\ invocation[d].session # "none" /\ invocation[d].permit # "none"
    BY <1>0, <1>3, <2>2 DEF Redact, GoTo, End, CommandsTypeOK
  <2>5. QED
    BY <2>1, <2>2, <2>3, <2>4 DEF Called, Ends, WritingStages
<1>4. CASE WriteFiles(d)
  <2>1. stage[d] \in WritingStages /\ invocation' = invocation
    BY <1>4 DEF WriteFiles, WritingStages
  <2>2. \/ stage'[d] = "ended" /\ outcome'[d] = "failed"
        \/ stage'[d] \in WritingStages /\ outcome'[d] = outcome[d]
    BY <1>0, <1>4 DEF WriteFiles, Open, Write, GoTo, End, CommandsTypeOK, WritingStages
  <2>3. QED
    BY <1>0, <2>1, <2>2 DEF Called, Ends, WritingStages
<1>5. CASE Report(d)
  <2>1. stage[d] \in WritingStages /\ invocation' = invocation /\ stage'[d] = "ended"
    BY <1>0, <1>5 DEF Report, End, WritingStages, CommandsTypeOK
  <2>2. QED
    BY <1>0, <2>1, InvocationsAssumption DEF Called, Ends, WritingStages
<1>6. CASE Detect(d) \/ Inspect(d) \/ Serve(d) \/ Kill(d) \/ Restore(d) \/ ReadFile(d)
  <2>1. /\ invocation' = invocation /\ invocation[d] \in Invocations[d]
        /\ stage[d] \notin {"not started", "ended"}
    BY <1>0, <1>6 DEF Detect, Inspect, HasRead, Serve, Kill, Restore, ReadFile, Called
  <2>2. \/ stage'[d] = "ended"
        \/ stage'[d] = stage[d] /\ outcome'[d] = outcome[d]
    BY <1>0, <1>6 DEF Detect, Inspect, HasRead, Serve, Kill, Restore, ReadFile, End,
                      CommandsTypeOK
  <2>3. outcome'[d] = "printed" => stage[d] \in {"detect", "inspect"} \/ outcome[d] = "printed"
    BY <1>0, <1>6 DEF Detect, Inspect, HasRead, Serve, Kill, Restore, ReadFile, End,
                      CommandsTypeOK
  <2>4. QED
    BY <1>0, <2>1, <2>2, <2>3 DEF Called, Ends, WritingStages
<1>7. QED
  BY <1>1, <1>2, <1>3, <1>4, <1>5, <1>6 DEF Step

LEMMA NoPermitYetKept ==
    ASSUME CommandsIInv, NEW d \in Commands, Step(d)
    PROVE  \A c \in Commands : NoPermitYet(c)'
<1>1. Frame(d) /\ CommandsTypeOK /\ Called(d)
  BY StepFrame DEF CommandsIInv
<1>2. \A c \in Commands : NoPermitYet(c)
  BY DEF CommandsIInv
<1>3. ASSUME NEW c \in Commands \ {d} PROVE NoPermitYet(c)'
  BY <1>1, <1>2 DEF NoPermitYet, Frame
<1>4. NoPermitYet(d)'
  <2>1. CASE files' = files
    <3>1. stage'[d] \in PermitlessStages => stage[d] \in PermitlessStages
      <4>1. CASE Start(d) \/ LoadConfig(d) \/ OpenConfig(d) \/ WriteConfig(d) \/ Redact(d)
        BY <4>1 DEF Start, LoadConfig, OpenConfig, WriteConfig, Redact, PermitlessStages,
                    EarlyStages
      <4>2. CASE WriteFiles(d)
        <5>1. CASE stage[d] = "writing permit"
          <6>1. stage'[d] \in {"printing", "ended"}
            BY <1>1, <4>2, <5>1 DEF WriteFiles, Write, GoTo, End, CommandsTypeOK
          <6>2. QED
            BY <6>1 DEF PermitlessStages, EarlyStages
        <5>2. CASE stage[d] # "writing permit"
          BY <4>2, <5>2 DEF WriteFiles, PermitlessStages
        <5>3. QED
          BY <5>1, <5>2
      <4>3. CASE Report(d) \/ Detect(d) \/ Inspect(d) \/ Serve(d) \/ Kill(d) \/ Restore(d)
        <5>1. stage'[d] = "ended"
          BY <1>1, <4>3 DEF Report, Detect, Inspect, HasRead, Serve, Kill, Restore, End,
                            CommandsTypeOK
        <5>2. QED
          BY <5>1 DEF PermitlessStages, EarlyStages
      <4>4. CASE ReadFile(d)
        <5>1. stage'[d] = "ended" \/ stage' = stage
          BY <1>1, <4>4 DEF ReadFile, End, CommandsTypeOK
        <5>2. QED
          BY <5>1 DEF PermitlessStages, EarlyStages
      <4>5. QED
        BY <4>1, <4>2, <4>3, <4>4 DEF Step
    <3>2. QED
      BY <1>2, <2>1, <3>1 DEF NoPermitYet
  <2>2. CASE files' # files
    <3>1. WriteFiles(d)
      BY <1>1, <2>2 DEF Frame
    <3>2. CASE stage[d] = "writing permit"
      <4>1. stage'[d] \in {"printing", "ended"}
        BY <1>1, <3>1, <3>2 DEF WriteFiles, Write, GoTo, End, CommandsTypeOK
      <4>2. QED
        BY <4>1 DEF NoPermitYet, PermitlessStages, EarlyStages
    <3>3. CASE stage[d] # "writing permit"
      <4>1. stage[d] \in PermitlessStages
        BY <3>1, <3>3 DEF WriteFiles, PermitlessStages
      <4>2. \E path : \/ files' = [files EXCEPT ![path] = EmptyFile]
                      \/ files' = [files EXCEPT ![path] = Mixed]
                      \/ files' = [files EXCEPT ![path] = Sealed("session", d)]
        BY <2>2, <3>1, <3>3 DEF WriteFiles, Open, Write
      <4>3. \A p \in Paths : IsPermitOf(files'[p], d) => IsPermitOf(files[p], d)
        BY <1>1, <4>2 DEF IsPermitOf, EmptyFile, Mixed, Sealed, CommandsTypeOK
      <4>4. QED
        BY <1>2, <4>1, <4>3 DEF NoPermitYet
    <3>4. QED
      BY <3>2, <3>3
  <2>3. QED
    BY <2>1, <2>2
<1>5. QED
  BY <1>3, <1>4

\* A redaction writes its session before its permit, and prints when both are there.
LEMMA WrittenByItself ==
    ASSUME CommandsIInv, NEW c \in Commands, Step(c)
    PROVE  Written(c)'
<1> DEFINE session == invocation[c].session
           permit == invocation[c].permit
<1>0. CommandsTypeOK /\ Called(c) /\ Ends(c) /\ NoPermitYet(c) /\ Written(c) /\ Frame(c)
  BY StepFrame DEF CommandsIInv
<1> SUFFICES ASSUME Separate(c)' PROVE Written(c)'
  BY DEF Written
<1>1. CASE Start(c)
  <2>1. stage[c] = "not started" /\ stage'[c] = "loading" /\ outcome'[c] = "none" /\ files' = files
    BY <1>0, <1>1 DEF Start, GoTo, CommandsTypeOK, Ends
  <2>2. ~Holds(c, permit, "permit")'
    <3>1. \A p \in Paths : ~IsPermitOf(files[p], c)
      BY <1>0, <2>1 DEF NoPermitYet, PermitlessStages, EarlyStages
    <3>2. permit' \in Paths
      BY DEF Separate
    <3>3. ~IsPermitOf(files'[permit'], c)
      BY <2>1, <3>1, <3>2
    <3>4. QED
      BY <3>3 DEF Holds, Sealed, IsPermitOf
  <2>3. QED
    BY <2>1, <2>2 DEF Written
<1>2. CASE ~Start(c)
  <2>0. Separate(c) /\ session' = session /\ permit' = permit /\ invocation' = invocation
    BY <1>0, <1>2, UndisturbedBefore DEF Separate, Frame
  <2>1. CASE WriteFiles(c)
    <3>0. /\ outcome[c] = "none" /\ session \in Paths /\ permit \in Paths /\ session # permit
          /\ outcome'[c] # "printed"
      BY <1>0, <2>0, <2>1 DEF WriteFiles, Ends, Separate, Open, Write, GoTo, End,
                              CommandsTypeOK
    <3>1. CASE stage[c] = "opening session"
      <4>1. \/ stage'[c] = "ended" /\ files' = files
            \/ stage'[c] = "writing session" /\ files' = [files EXCEPT ![session] = EmptyFile]
        BY <1>0, <2>1, <3>1 DEF WriteFiles, Open, GoTo, End, CommandsTypeOK
      <4>2. ~Holds(c, permit, "permit")'
        <5>1. ~IsPermitOf(files[permit], c)
          BY <1>0, <3>0, <3>1 DEF NoPermitYet, PermitlessStages
        <5>2. files'[permit] = files[permit]
          BY <1>0, <3>0, <4>1 DEF CommandsTypeOK
        <5>3. QED
          BY <2>0, <5>1, <5>2 DEF Holds, Sealed, IsPermitOf
      <4>3. stage'[c] = "writing session" => files'[session] = EmptyFile
        BY <1>0, <3>0, <4>1 DEF CommandsTypeOK
      <4>4. QED
        BY <2>0, <3>0, <4>1, <4>2, <4>3 DEF Written
    <3>2. CASE stage[c] = "writing session"
      <4>1. files[session] = EmptyFile
        BY <1>0, <2>0, <3>2 DEF Written
      <4>2. \/ stage'[c] = "ended" /\ files' = files
            \/ /\ stage'[c] = "opening permit"
               /\ files' = [files EXCEPT ![session] = Sealed("session", c)]
        <5>1. EmptyFile.type = "empty"
          BY DEF EmptyFile
        <5>2. QED
          BY <1>0, <2>1, <3>2, <4>1, <5>1 DEF WriteFiles, Write, GoTo, End, CommandsTypeOK
      <4>3. ~Holds(c, permit, "permit")'
        <5>1. ~IsPermitOf(files[permit], c)
          BY <1>0, <3>0, <3>2 DEF NoPermitYet, PermitlessStages
        <5>2. files'[permit] = files[permit]
          BY <1>0, <3>0, <4>2 DEF CommandsTypeOK
        <5>3. QED
          BY <2>0, <5>1, <5>2 DEF Holds, Sealed, IsPermitOf
      <4>4. stage'[c] = "opening permit" => Holds(c, session, "session")'
        BY <1>0, <2>0, <3>0, <4>2 DEF Holds, Sealed, CommandsTypeOK
      <4>5. QED
        BY <2>0, <3>0, <4>2, <4>3, <4>4 DEF Written
    <3>3. CASE stage[c] = "opening permit"
      <4>1. Holds(c, session, "session")
        BY <1>0, <2>0, <3>3 DEF Written
      <4>2. \/ stage'[c] = "ended" /\ files' = files
            \/ stage'[c] = "writing permit" /\ files' = [files EXCEPT ![permit] = EmptyFile]
        BY <1>0, <2>1, <3>3 DEF WriteFiles, Open, GoTo, End, CommandsTypeOK
      <4>3. Holds(c, session, "session")'
        BY <1>0, <2>0, <3>0, <4>1, <4>2 DEF Holds, Sealed, CommandsTypeOK
      <4>4. stage'[c] = "writing permit" => files'[permit] = EmptyFile
        BY <1>0, <3>0, <4>2 DEF CommandsTypeOK
      <4>5. QED
        BY <2>0, <3>0, <4>2, <4>3, <4>4 DEF Written
    <3>4. CASE stage[c] = "writing permit"
      <4>1. Holds(c, session, "session") /\ files[permit] = EmptyFile
        BY <1>0, <2>0, <3>4 DEF Written
      <4>2. \/ stage'[c] = "ended" /\ files' = files
            \/ /\ stage'[c] = "printing"
               /\ files' = [files EXCEPT ![permit] = Sealed("permit", c)]
        <5>1. EmptyFile.type = "empty"
          BY DEF EmptyFile
        <5>2. QED
          BY <1>0, <2>1, <3>4, <4>1, <5>1 DEF WriteFiles, Write, GoTo, End, CommandsTypeOK
      <4>3. Holds(c, session, "session")'
        BY <1>0, <2>0, <3>0, <4>1, <4>2 DEF Holds, Sealed, CommandsTypeOK
      <4>4. stage'[c] = "printing" => Holds(c, permit, "permit")'
        BY <1>0, <2>0, <3>0, <4>2 DEF Holds, Sealed, CommandsTypeOK
      <4>5. QED
        BY <2>0, <3>0, <4>2, <4>3, <4>4 DEF Written
    <3>5. QED
      BY <2>1, <3>1, <3>2, <3>3, <3>4 DEF WriteFiles
  <2>2. CASE ~WriteFiles(c)
    <3>1. files' = files
      BY <1>0, <2>2 DEF Frame
    <3>2. \A path, type : Holds(c, path, type)' <=> Holds(c, path, type)
      BY <2>0, <3>1 DEF Holds, Sealed
    <3>3. stage'[c] \notin {"writing session", "opening permit", "writing permit", "printing"}
      <4>1. CASE LoadConfig(c) \/ OpenConfig(c) \/ WriteConfig(c)
        <5>1. stage[c] \in {"loading", "creating", "writing config"}
          BY <4>1 DEF LoadConfig, OpenConfig, WriteConfig
        <5>2. invocation[c].kind \notin WritingStages
          BY <1>0, <5>1, InvocationsAssumption DEF Called, WritingStages
        <5>3. stage'[c] \in {"creating", "writing config", "ended", invocation[c].kind}
          BY <1>0, <4>1 DEF LoadConfig, OpenConfig, WriteConfig, Resolve, GoTo, End,
                            CommandsTypeOK
        <5>4. QED
          BY <5>1, <5>2, <5>3 DEF WritingStages
      <4>2. CASE Redact(c)
        <5>1. session # "none"
          BY <2>0, InvocationsAssumption DEF Separate
        <5>2. QED
          BY <1>0, <4>2, <5>1 DEF Redact, GoTo, End, CommandsTypeOK
      <4>3. CASE Report(c) \/ Detect(c) \/ Inspect(c) \/ Serve(c) \/ Kill(c) \/ Restore(c)
        <5>1. stage'[c] = "ended"
          BY <1>0, <4>3 DEF Report, Detect, Inspect, HasRead, Serve, Kill, Restore, End,
                            CommandsTypeOK
        <5>2. QED
          BY <5>1
      <4>4. CASE ReadFile(c)
        <5>1. stage[c] \in {"restore", "inspect"} /\ stage'[c] \in {stage[c], "ended"}
          BY <1>0, <4>4 DEF ReadFile, End, CommandsTypeOK
        <5>2. QED
          BY <5>1
      <4>5. QED
        BY <1>2, <2>2, <4>1, <4>2, <4>3, <4>4 DEF Step
    <3>4. outcome'[c] = "printed" => outcome[c] = "printed" \/ stage[c] = "printing"
      <4>1. invocation[c].kind = "redact" /\ invocation[c].session # "none"
        BY <2>0, InvocationsAssumption DEF Separate
      <4>2. stage[c] \notin {"detect", "inspect", "restore", "serve"}
        BY <1>0, <4>1 DEF Called
      <4>3. CASE LoadConfig(c) \/ OpenConfig(c) \/ WriteConfig(c)
        BY <1>0, <4>3 DEF LoadConfig, OpenConfig, WriteConfig, Resolve, GoTo, End,
                          CommandsTypeOK
      <4>4. CASE Redact(c)
        BY <1>0, <4>1, <4>4 DEF Redact, GoTo, End, CommandsTypeOK
      <4>5. CASE Report(c)
        BY <4>5 DEF Report
      <4>6. CASE Kill(c)
        BY <1>0, <4>6 DEF Kill, End, CommandsTypeOK
      <4>7. CASE Detect(c) \/ Inspect(c) \/ Serve(c) \/ Restore(c) \/ ReadFile(c)
        BY <4>2, <4>7 DEF Detect, Inspect, HasRead, Serve, Restore, ReadFile
      <4>8. QED
        BY <1>2, <2>2, <4>3, <4>4, <4>5, <4>6, <4>7 DEF Step
    <3>5. QED
      BY <1>0, <2>0, <3>2, <3>3, <3>4 DEF Written
  <2>3. QED
    BY <2>1, <2>2
<1>3. QED
  BY <1>1, <1>2

LEMMA InitCommandsIInv == Init => CommandsIInv
<1> SUFFICES ASSUME Init PROVE CommandsIInv
  OBVIOUS
<1>1. CommandsTypeOK
  BY DEF Init, CommandsTypeOK
<1>2. ASSUME NEW c \in Commands
      PROVE  Called(c) /\ EndedOnes(c) /\ Ends(c) /\ NoPermitYet(c) /\ Written(c)
  <2>1. /\ stage[c] = "not started" /\ outcome[c] = "none" /\ endedBefore[c] = {}
        /\ invocation[c].kind = "none"
    BY DEF Init
  <2>2. ~Separate(c)
    BY <2>1 DEF Separate
  <2>3. \A p \in Paths : ~IsPermitOf(files[p], c)
    BY DEF Init, IsPermitOf, Missing
  <2>4. QED
    BY <2>1, <2>2, <2>3 DEF Called, EndedOnes, Ends, NoPermitYet, Written, WritingStages
<1>3. QED
  BY <1>1, <1>2 DEF CommandsIInv

LEMMA CommandsStep == CommandsIInv /\ [Next]_vars => CommandsIInv'
<1> SUFFICES ASSUME CommandsIInv, [Next]_vars PROVE CommandsIInv'
  OBVIOUS
<1>1. CASE UNCHANGED vars
  <2>1. /\ CommandsTypeOK'
        /\ \A c \in Commands : Called(c)' /\ EndedOnes(c)' /\ Ends(c)' /\ NoPermitYet(c)'
    <3>1. CommandsTypeOK'
      BY <1>1 DEF vars, CommandsIInv, CommandsTypeOK
    <3>2. \A c \in Commands : Called(c)' /\ Ends(c)'
      BY <1>1 DEF vars, CommandsIInv, Called, Ends
    <3>3. \A c \in Commands : EndedOnes(c)' /\ NoPermitYet(c)'
      BY <1>1 DEF vars, CommandsIInv, EndedOnes, NoPermitYet
    <3>4. QED
      BY <3>1, <3>2, <3>3
  <2>2. ASSUME NEW c \in Commands PROVE Written(c)'
    <3>1. Separate(c)' <=> Separate(c)
      BY <1>1 DEF vars, Separate, Undisturbed, PathsOf
    <3>2. Written(c)
      BY DEF CommandsIInv
    <3>3. QED
      BY <1>1, <3>1, <3>2 DEF vars, Written, Holds, Sealed
  <2>3. QED
    BY <2>1, <2>2 DEF CommandsIInv
<1>2. CASE Next
  <2>1. PICK d \in Commands : Step(d)
    BY <1>2 DEF Next, Step
  <2>2. Frame(d)
    BY <2>1, StepFrame
  <2>3. ASSUME NEW c \in Commands \ {d} PROVE Called(c)' /\ Ends(c)'
    <3>1. /\ stage'[c] = stage[c] /\ outcome'[c] = outcome[c]
          /\ invocation'[c] = invocation[c]
      BY <2>2 DEF Frame
    <3>2. Called(c) /\ Ends(c)
      BY DEF CommandsIInv
    <3>3. Called(c)'
      BY <3>1, <3>2 DEF Called
    <3>4. Ends(c)'
      BY <3>1, <3>2 DEF Ends
    <3>5. QED
      BY <3>3, <3>4
  <2>4. Called(d)' /\ Ends(d)'
    BY <2>1, CalledKept
  <2>5. \A c \in Commands : NoPermitYet(c)'
    BY <2>1, NoPermitYetKept
  <2>6. \A c \in Commands : EndedOnes(c)'
    <3> SUFFICES ASSUME NEW c \in Commands, NEW e \in endedBefore'[c]
                 PROVE  e \in Commands /\ stage'[e] = "ended"
      BY DEF EndedOnes
    <3>1. e \in Commands /\ stage[e] = "ended"
      <4>1. CASE c = d /\ Start(d)
        BY <4>1 DEF Start, Ended, CommandsIInv, CommandsTypeOK
      <4>2. CASE ~(c = d /\ Start(d))
        <5>1. endedBefore'[c] = endedBefore[c]
          BY <2>2, <4>2 DEF Frame
        <5>2. QED
          BY <5>1 DEF CommandsIInv, EndedOnes
      <4>3. QED
        BY <4>1, <4>2
    <3>2. QED
      BY <2>2, <3>1 DEF Frame
  <2>7. \A c \in Commands : Written(c)'
    <3>1. Written(d)'
      BY <2>1, WrittenByItself
    <3>2. ASSUME NEW c \in Commands \ {d}, Separate(c)'
          PROVE  Written(c)'
      <4>1. /\ Separate(c)
            /\ files'[invocation[c].session] = files[invocation[c].session]
            /\ files'[invocation[c].permit] = files[invocation[c].permit]
        BY <2>1, <3>2, FilesUndisturbed
      <4>2. /\ invocation'[c] = invocation[c] /\ stage'[c] = stage[c]
            /\ outcome'[c] = outcome[c]
        BY <2>2 DEF Frame
      <4>3. Written(c)
        BY DEF CommandsIInv
      <4>4. QED
        BY <4>1, <4>2, <4>3 DEF Written, Holds, Sealed
    <3>3. QED
      BY <3>1, <3>2 DEF Written
  <2>8. QED
    BY <2>2, <2>3, <2>4, <2>5, <2>6, <2>7 DEF CommandsIInv, Frame
<1>3. QED
  BY <1>1, <1>2

LEMMA CommandsInvariance == Spec => []CommandsIInv
  BY InitCommandsIInv, CommandsStep, PTL DEF Spec

\* The paths of a redaction that has got to writing are paths.
LEMMA SeparateRedaction ==
    ASSUME CommandsIInv, NEW c \in Commands, invocation[c].kind = "redact", Undisturbed(c),
           invocation[c].session # "none", invocation[c].permit # "none",
           invocation[c].session # invocation[c].permit
    PROVE  Separate(c)
<1>1. stage[c] # "not started"
  BY DEF CommandsIInv, Called
<1>2. invocation[c] \in Invocations[c]
  BY <1>1 DEF CommandsIInv, Called
<1>3. QED
  BY <1>2, InvocationsAssumption DEF Separate

\* Wherever a redaction fails or is killed, it leaves no permit whose session is
\* not in its file, while nobody else writes to its two files.
THEOREM PermitsNeverAlone == Spec => []PermitsHaveSessions
<1>1. CommandsIInv => PermitsHaveSessions
  <2> SUFFICES ASSUME CommandsIInv, NEW c \in Commands, invocation[c].kind = "redact",
                      Undisturbed(c), invocation[c].session # "none",
                      invocation[c].permit \notin {"none", invocation[c].session},
                      Holds(c, invocation[c].permit, "permit")
               PROVE  Holds(c, invocation[c].session, "session")
    BY DEF PermitsHaveSessions
  <2>1. Separate(c)
    BY SeparateRedaction
  <2>2. QED
    BY <2>1 DEF CommandsIInv, Written
<1>2. QED
  BY <1>1, CommandsInvariance, PTL

\* What a redaction has printed can be restored with what it has left in two files,
\* while nobody else writes there.
THEOREM PrintedStaysRestorable == Spec => []PrintedIsRestorable
<1>1. CommandsIInv => PrintedIsRestorable
  <2> SUFFICES ASSUME CommandsIInv, NEW c \in PrintedTexts,
                      Undisturbed(c), invocation[c].session # "none",
                      invocation[c].session # invocation[c].permit
               PROVE  /\ Holds(c, invocation[c].session, "session")
                      /\ Holds(c, invocation[c].permit, "permit")
    BY DEF PrintedIsRestorable
  <2>1. c \in Commands /\ invocation[c].kind = "redact" /\ outcome[c] = "printed"
    BY DEF PrintedTexts
  <2>2. invocation[c].permit # "none"
    BY <2>1 DEF CommandsIInv, Ends
  <2>3. Separate(c)
    BY <2>1, <2>2, SeparateRedaction
  <2>4. QED
    BY <2>1, <2>3 DEF CommandsIInv, Written
<1>2. QED
  BY <1>1, CommandsInvariance, PTL

--------------------------------------------------------------------------------
(***************************************************************************)
(* Restorations                                                            *)
(***************************************************************************)

\* c restores with the files and the passphrase of r, which ended before it began.
RestoresFrom(c, r) ==
    /\ invocation[c].kind = "restore"
    /\ Undisturbed(r)
    /\ r \in endedBefore[c]
    /\ invocation[r].session \notin {"none", invocation[r].permit}
    /\ invocation[c].session = invocation[r].session
    /\ invocation[c].permits = <<invocation[r].permit>>
    /\ invocation[c].passphrase = invocation[r].passphrase

\* What c reads is what r has written, one file after the other.
ReadsFrom(c, r) ==
    /\ read[c] \in {<<>>, <<Sealed("session", r)>>,
                    <<Sealed("session", r), Sealed("permit", r)>>}
    /\ restored[c] # <<>> /\ restored[c].text = r => restored[c].from = r

ReadingIInv ==
    /\ DOMAIN read = Commands
    /\ DOMAIN restored = Commands
    /\ \A c \in Commands : stage[c] = "not started" => read[c] = <<>> /\ restored[c] = <<>>
    /\ \A c \in Commands, r \in PrintedTexts : RestoresFrom(c, r) => ReadsFrom(c, r)

LEMMA Pair ==
    ASSUME NEW a, NEW b
    PROVE  /\ <<a>> \o <<b>> = <<a, b>>
           /\ Append(<<a>>, b) = <<a, b>>
<1> DEFINE S == {a, b}
<1>1. <<a>> \in Seq(S) /\ <<b>> \in Seq(S) /\ <<a, b>> \in Seq(S)
  OBVIOUS
<1>2. /\ Len(<<a>>) = 1 /\ Len(<<b>>) = 1 /\ Len(<<a, b>>) = 2
      /\ <<a>>[1] = a /\ <<b>>[1] = b /\ <<a, b>>[1] = a /\ <<a, b>>[2] = b
  OBVIOUS
<1>3. <<a>> \o <<b>> = <<a, b>>
  <2> DEFINE t == <<a>> \o <<b>>
  <2>1. /\ t \in Seq(S)
        /\ Len(t) = Len(<<a>>) + Len(<<b>>)
        /\ \A i \in 1 .. Len(<<a>>) + Len(<<b>>) :
              t[i] = IF i <= Len(<<a>>) THEN <<a>>[i] ELSE <<b>>[i - Len(<<a>>)]
    BY <1>1, ConcatProperties, Zenon
  <2> HIDE DEF t
  <2>2. Len(t) = 2 /\ t[1] = a /\ t[2] = b
    BY <1>2, <2>1
  <2>3. Len(t) = Len(<<a, b>>) /\ \A i \in 1 .. Len(t) : t[i] = <<a, b>>[i]
    BY <1>2, <2>2
  <2>4. t = <<a, b>>
    BY <1>1, <2>1, <2>3, SeqEqual, Zenon
  <2>5. QED
    BY <2>4 DEF t
<1>4. Append(<<a>>, b) = <<a, b>>
  <2> DEFINE t == Append(<<a>>, b)
  <2>1. t \in Seq(S) /\ Len(t) = 2 /\ t[1] = a /\ t[2] = b
    BY <1>1, <1>2
  <2> HIDE DEF t
  <2>2. Len(t) = Len(<<a, b>>) /\ \A i \in 1 .. Len(t) : t[i] = <<a, b>>[i]
    BY <1>2, <2>1
  <2>3. t = <<a, b>>
    BY <1>1, <2>1, <2>2, SeqEqual, Zenon
  <2>4. QED
    BY <2>3 DEF t
<1>5. QED
  BY <1>3, <1>4

\* Files of a redaction that has printed, which a restoration is about to read.
LEMMA FilesOfPrinted ==
    ASSUME CommandsIInv, NEW c \in Commands, NEW r \in PrintedTexts, RestoresFrom(c, r)
    PROVE  /\ files[invocation[c].session] = Sealed("session", r)
           /\ files[invocation[c].permits[1]] = Sealed("permit", r)
<1>1. r \in Commands /\ invocation[r].kind = "redact" /\ outcome[r] = "printed"
  BY DEF PrintedTexts
<1>2. invocation[r].permit # "none"
  BY <1>1 DEF CommandsIInv, Ends, RestoresFrom
<1>3. Separate(r)
  BY <1>1, <1>2, SeparateRedaction DEF RestoresFrom
<1>4. /\ files[invocation[r].session] = Sealed("session", r)
      /\ files[invocation[r].permit] = Sealed("permit", r)
  BY <1>1, <1>3 DEF CommandsIInv, Written, Holds
<1>5. /\ invocation[c].session = invocation[r].session
      /\ invocation[c].permits[1] = invocation[r].permit
  BY DEF RestoresFrom
<1>6. QED
  BY <1>4, <1>5

\* What c restores from it has restored from before this step, unless it starts now.
LEMMA RestoredFromBefore ==
    ASSUME CommandsIInv, NEW c \in Commands, NEW d \in Commands, Step(d),
           ~(c = d /\ Start(d)),
           NEW r \in Commands, (r \in PrintedTexts)', RestoresFrom(c, r)'
    PROVE  /\ r # d /\ r \in PrintedTexts /\ RestoresFrom(c, r)
           /\ invocation'[r] = invocation[r] /\ invocation'[c] = invocation[c]
<1>1. Frame(d)
  BY StepFrame
<1>2. invocation'[c] = invocation[c] /\ endedBefore'[c] = endedBefore[c]
  BY <1>1 DEF Frame
<1>3. stage[r] = "ended"
  BY <1>2 DEF RestoresFrom, CommandsIInv, EndedOnes
<1>4. r # d /\ ~Start(r)
  BY <1>1, <1>3 DEF Frame, Start
<1>5. outcome'[r] = outcome[r] /\ invocation'[r] = invocation[r]
  BY <1>1, <1>4 DEF Frame
<1>6. Undisturbed(r)
  BY <1>4, UndisturbedBefore DEF RestoresFrom
<1>7. QED
  BY <1>2, <1>4, <1>5, <1>6 DEF RestoresFrom, PrintedTexts

\* Other steps read and restore nothing for c.
LEMMA OthersRead ==
    ASSUME NEW c \in Commands, NEW d \in Commands, Step(d), ReadingIInv,
           ~(c = d /\ (ReadFile(d) \/ Restore(d)))
    PROVE  read'[c] = read[c] /\ restored'[c] = restored[c]
<1>1. CASE ReadFile(d)
  BY <1>1 DEF ReadFile, ReadingIInv
<1>2. CASE Restore(d)
  BY <1>2 DEF Restore, ReadingIInv
<1>3. CASE Start(d) \/ LoadConfig(d) \/ OpenConfig(d) \/ WriteConfig(d)
  BY <1>3 DEF Start, LoadConfig, OpenConfig, WriteConfig
<1>4. CASE Redact(d) \/ WriteFiles(d) \/ Report(d) \/ Detect(d) \/ Inspect(d)
  BY <1>4 DEF Redact, WriteFiles, Report, Detect, Inspect
<1>5. CASE Serve(d) \/ Kill(d)
  BY <1>5 DEF Serve, Kill
<1>6. QED
  BY <1>1, <1>2, <1>3, <1>4, <1>5 DEF Step

LEMMA ReadingStep ==
    ASSUME CommandsIInv, ReadingIInv, NEW d \in Commands, Step(d)
    PROVE  ReadingIInv'
<1>0. Frame(d) /\ DOMAIN stage = Commands
  BY StepFrame DEF CommandsIInv, CommandsTypeOK
<1>1. DOMAIN read' = Commands /\ DOMAIN restored' = Commands
  <2>1. CASE ReadFile(d)
    BY <2>1 DEF ReadFile, ReadingIInv
  <2>2. CASE Restore(d)
    BY <2>2 DEF Restore, ReadingIInv
  <2>3. CASE Start(d) \/ LoadConfig(d) \/ OpenConfig(d) \/ WriteConfig(d)
    BY <2>3 DEF Start, LoadConfig, OpenConfig, WriteConfig, ReadingIInv
  <2>4. CASE Redact(d) \/ WriteFiles(d) \/ Report(d) \/ Detect(d) \/ Inspect(d)
    BY <2>4 DEF Redact, WriteFiles, Report, Detect, Inspect, ReadingIInv
  <2>5. CASE Serve(d) \/ Kill(d)
    BY <2>5 DEF Serve, Kill, ReadingIInv
  <2>6. QED
    BY <2>1, <2>2, <2>3, <2>4, <2>5 DEF Step
<1>2. ASSUME NEW c \in Commands, stage'[c] = "not started"
      PROVE  read'[c] = <<>> /\ restored'[c] = <<>>
  <2>1. stage[c] = "not started" /\ c # d
    <3>1. CASE c = d
      <4>1. /\ stage[d] # "not started" => invocation[d].kind # "not started"
            /\ DOMAIN stage = Commands
        BY <1>0, InvocationsAssumption DEF CommandsIInv, Called
      <4>2. stage'[d] # "not started"
        <5>1. CASE Start(d) \/ LoadConfig(d)
          BY <4>1, <5>1 DEF Start, LoadConfig, GoTo, End, Resolve
        <5>2. CASE OpenConfig(d) \/ WriteConfig(d)
          BY <4>1, <5>2 DEF OpenConfig, WriteConfig, GoTo, End, Resolve
        <5>3. CASE Redact(d)
          BY <4>1, <5>3 DEF Redact, GoTo, End
        <5>7. CASE WriteFiles(d)
          BY <4>1, <5>7 DEF WriteFiles, Open, Write, GoTo, End
        <5>4. CASE Report(d) \/ Detect(d) \/ ReadFile(d) \/ Restore(d)
          BY <4>1, <5>4 DEF Report, Detect, ReadFile, Restore, HasRead, End
        <5>5. CASE Inspect(d) \/ Serve(d) \/ Kill(d)
          BY <4>1, <5>5 DEF Inspect, HasRead, Serve, Kill, End
        <5>6. QED
          BY <5>1, <5>2, <5>3, <5>4, <5>5, <5>7 DEF Step
      <4>3. QED
        BY <1>2, <3>1, <4>2
    <3>2. CASE c # d
      BY <1>0, <1>2, <3>2 DEF Frame
    <3>3. QED
      BY <3>1, <3>2
  <2>2. QED
    BY <2>1, OthersRead DEF ReadingIInv
<1>3. ASSUME NEW c \in Commands, NEW r \in Commands, (r \in PrintedTexts)',
             RestoresFrom(c, r)'
      PROVE  ReadsFrom(c, r)'
  <2>1. CASE c = d /\ Start(d)
    <3>1. read[c] = <<>> /\ restored[c] = <<>>
      BY <2>1 DEF Start, ReadingIInv
    <3>2. read'[c] = <<>> /\ restored'[c] = <<>>
      BY <2>1, <3>1 DEF Start
    <3>3. QED
      BY <3>2 DEF ReadsFrom
  <2>2. CASE ~(c = d /\ Start(d))
    <3>1. /\ r \in PrintedTexts /\ RestoresFrom(c, r)
          /\ invocation'[r] = invocation[r] /\ invocation'[c] = invocation[c]
      BY <1>3, <2>2, RestoredFromBefore
    <3>2. ReadsFrom(c, r)
      BY <3>1 DEF ReadingIInv
    <3>3. Sealed("session", r)' = Sealed("session", r) /\ Sealed("permit", r)' = Sealed("permit", r)
      BY <3>1 DEF Sealed
    <3>4. CASE ~(c = d /\ (ReadFile(d) \/ Restore(d)))
      BY <3>2, <3>3, <3>4, OthersRead DEF ReadsFrom
    <3>5. FilesToRead(invocation[c]) = <<invocation[c].session, invocation[c].permits[1]>>
      <4>1. invocation[c].permits = <<invocation[c].permits[1]>>
        BY <3>1 DEF RestoresFrom
      <4>2. <<invocation[c].session>> \o <<invocation[c].permits[1]>>
              = <<invocation[c].session, invocation[c].permits[1]>>
        BY Pair
      <4>3. QED
        BY <4>1, <4>2 DEF FilesToRead
    <3>6. CASE c = d /\ ReadFile(d)
      <4>1. restored' = restored
        BY <3>6 DEF ReadFile
      <4>2. CASE read' = read
        BY <3>2, <3>3, <4>1, <4>2 DEF ReadsFrom
      <4>3. CASE read' # read
        <5>1. /\ Len(read[c]) < 2
              /\ read'[c] = Append(read[c], files[FilesToRead(invocation[c])[Len(read[c]) + 1]])
          BY <3>5, <3>6, <4>3 DEF ReadFile, ReadingIInv
        <5>2. /\ files[invocation[c].session] = Sealed("session", r)
              /\ files[invocation[c].permits[1]] = Sealed("permit", r)
          BY <3>1, FilesOfPrinted
        <5>3. CASE read[c] = <<>>
          <6>1. read'[c] = <<Sealed("session", r)>>
            BY <3>5, <5>1, <5>2, <5>3
          <6>2. QED
            BY <3>2, <3>3, <4>1, <6>1 DEF ReadsFrom
        <5>4. CASE read[c] = <<Sealed("session", r)>>
          <6>1. read'[c] = <<Sealed("session", r), Sealed("permit", r)>>
            <7>1. read'[c] = Append(<<Sealed("session", r)>>, Sealed("permit", r))
              BY <3>5, <5>1, <5>2, <5>4
            <7>2. QED
              BY <7>1, Pair
          <6>2. QED
            BY <3>2, <3>3, <4>1, <6>1 DEF ReadsFrom
        <5>5. read[c] # <<Sealed("session", r), Sealed("permit", r)>>
          BY <5>1
        <5>6. QED
          BY <3>2, <5>3, <5>4, <5>5 DEF ReadsFrom
      <4>4. QED
        BY <4>2, <4>3
    <3>7. CASE c = d /\ Restore(d)
      <4>1. read' = read /\ Len(read[c]) = 2
        BY <3>5, <3>7 DEF Restore, HasRead
      <4>2. read[c][1] = Sealed("session", r)
        BY <3>2, <4>1 DEF ReadsFrom
      <4>3. restored'[c] # <<>> /\ restored'[c].text = r => restored'[c].from = r
        <5>1. CASE restored' = restored
          BY <3>2, <5>1 DEF ReadsFrom
        <5>2. CASE \E text \in PrintedTexts :
                      restored' = [restored EXCEPT ![c] =
                                      [text |-> text, from |-> RestoredFrom(c, text)]]
          <6>1. PICK text : restored'[c] = [text |-> text, from |-> RestoredFrom(c, text)]
            BY <5>2 DEF ReadingIInv
          <6>2. RestoredFrom(c, r) = r
            BY <4>2 DEF RestoredFrom, Sealed
          <6>3. QED
            BY <6>1, <6>2
        <5>3. QED
          BY <3>7, <5>1, <5>2 DEF Restore
      <4>4. QED
        BY <3>2, <3>3, <4>1, <4>3 DEF ReadsFrom
    <3>8. QED
      BY <3>4, <3>6, <3>7
  <2>3. QED
    BY <2>1, <2>2
<1>4. QED
  BY <1>1, <1>2, <1>3 DEF ReadingIInv, PrintedTexts

\* What has been printed is restored: with its files and its passphrase, a later
\* restoration finds what fits, and gives back the original, while nobody else
\* writes to the two files.
THEOREM PrintedIsRestored == Spec => []PrintedRestores
<1>1. Init => ReadingIInv
  <2> SUFFICES ASSUME Init PROVE ReadingIInv
    OBVIOUS
  <2>1. PrintedTexts = {}
    BY DEF Init, PrintedTexts
  <2>2. QED
    BY <2>1 DEF Init, ReadingIInv
<1>2. CommandsIInv /\ ReadingIInv /\ [Next]_vars => ReadingIInv'
  <2> SUFFICES ASSUME CommandsIInv, ReadingIInv, [Next]_vars PROVE ReadingIInv'
    OBVIOUS
  <2>1. CASE UNCHANGED vars
    <3>1. /\ config' = config /\ files' = files /\ invocation' = invocation /\ stage' = stage
          /\ read' = read /\ outcome' = outcome /\ restored' = restored
          /\ endedBefore' = endedBefore
      BY <2>1 DEF vars
    <3>2. PrintedTexts' = PrintedTexts
      BY <3>1 DEF PrintedTexts
    <3>3. ASSUME NEW c \in Commands, NEW r \in PrintedTexts, RestoresFrom(c, r)'
          PROVE  ReadsFrom(c, r)'
      <4>1. RestoresFrom(c, r)
        BY <3>1, <3>3 DEF RestoresFrom, Undisturbed, PathsOf
      <4>2. ReadsFrom(c, r)
        BY <4>1 DEF ReadingIInv
      <4>3. QED
        BY <3>1, <4>2 DEF ReadsFrom, Sealed
    <3>4. QED
      BY <3>1, <3>2, <3>3 DEF ReadingIInv
  <2>2. CASE Next
    <3>1. PICK d \in Commands : Step(d)
      BY <2>2 DEF Next, Step
    <3>2. QED
      BY <3>1, ReadingStep
  <2>3. QED
    BY <2>1, <2>2
<1>3. CommandsIInv /\ ReadingIInv => PrintedRestores
  <2> SUFFICES ASSUME CommandsIInv, ReadingIInv, NEW c \in Commands, NEW r \in PrintedTexts,
                      RestoresFrom(c, r), Len(read[c]) = 2
               PROVE  /\ PermitsMatch(c)
                      /\ restored[c] # <<>> /\ restored[c].text = r => restored[c].from = r
    BY DEF PrintedRestores, RestoresFrom
  <2>1. ReadsFrom(c, r)
    BY DEF ReadingIInv
  <2>2. read[c][1] = Sealed("session", r) /\ read[c][2] = Sealed("permit", r)
    BY <2>1 DEF ReadsFrom
  <2>3. invocation[c].passphrase = invocation[r].passphrase
    BY DEF RestoresFrom
  <2>4. \A i \in 2..Len(read[c]) : i = 2
    OBVIOUS
  <2>5. PermitsMatch(c)
    BY <2>2, <2>3, <2>4 DEF PermitsMatch, AllOpened, Opened, Sealed
  <2>6. QED
    BY <2>1, <2>5 DEF ReadsFrom
<1>4. QED
  BY <1>1, <1>2, <1>3, CommandsInvariance, PTL DEF Spec
--------------------------------------------------------------------------------
(***************************************************************************)
(* The configuration                                                       *)
(***************************************************************************)

\* Nobody creates a configuration where there is one of an older version, and
\* none of an older version appears.
ConfigIInv ==
    /\ DOMAIN stage = Commands
    /\ DOMAIN outcome = Commands
    /\ DOMAIN invocation = Commands
    /\ \A c \in Commands :
         /\ stage[c] = "not started" \/ invocation[c] \in Invocations[c]
         /\ stage[c] \in {"creating", "writing config"} => config.type # "legacy"
         /\ outcome[c] = "configuration refused" => config.type = "legacy"

\* Every step but the three that create it leaves the configuration as it is.
LEMMA ConfigUnchanged ==
    ASSUME NEW d \in Commands,
           \/ Start(d) \/ Redact(d) \/ WriteFiles(d) \/ Report(d) \/ Detect(d)
           \/ ReadFile(d) \/ Restore(d) \/ Inspect(d) \/ Serve(d) \/ Kill(d),
           ConfigIInv
    PROVE  ConfigIInv'
<1>1. CASE Start(d)
  BY <1>1 DEF Start, GoTo, ConfigIInv
<1>2. CASE Redact(d)
  BY <1>2 DEF Redact, GoTo, End, ConfigIInv
<1>3. CASE WriteFiles(d)
  <2>1. /\ config' = config /\ invocation' = invocation
        /\ stage[d] # "not started"
    BY <1>3 DEF WriteFiles
  <2>2. \/ \E next \in WritingStages : GoTo(d, next)
        \/ End(d, "failed")
    BY <1>3 DEF WriteFiles, Open, Write, WritingStages
  <2>3. CASE \E next \in WritingStages : GoTo(d, next)
    BY <2>1, <2>3 DEF GoTo, WritingStages, ConfigIInv
  <2>4. CASE End(d, "failed")
    BY <2>1, <2>4 DEF End, ConfigIInv
  <2>5. QED
    BY <2>2, <2>3, <2>4
<1>4. CASE Report(d)
  BY <1>4 DEF Report, End, ConfigIInv
<1>5. CASE Detect(d)
  BY <1>5 DEF Detect, End, ConfigIInv
<1>6. CASE ReadFile(d)
  BY <1>6 DEF ReadFile, End, ConfigIInv
<1>7. CASE Restore(d)
  BY <1>7 DEF Restore, HasRead, End, ConfigIInv
<1>8. CASE Inspect(d)
  BY <1>8 DEF Inspect, HasRead, End, ConfigIInv
<1>9. CASE Serve(d)
  BY <1>9 DEF Serve, End, ConfigIInv
<1>10. CASE Kill(d)
  BY <1>10 DEF Kill, End, ConfigIInv
<1>11. QED
  BY <1>1, <1>2, <1>3, <1>4, <1>5, <1>6, <1>7, <1>8, <1>9, <1>10

LEMMA ConfigStep ==
    ASSUME NEW d \in Commands, LoadConfig(d) \/ OpenConfig(d) \/ WriteConfig(d), ConfigIInv
    PROVE  ConfigIInv'
<1>1. CASE LoadConfig(d)
  <2>1. /\ config' = config /\ invocation' = invocation /\ stage[d] = "loading"
        /\ invocation[d] \in Invocations[d]
    BY <1>1 DEF LoadConfig, ConfigIInv
  <2>2. CASE config.type = "missing" /\ GoTo(d, "creating")
    BY <2>1, <2>2 DEF GoTo, ConfigIInv
  <2>3. CASE Resolve(d, Settings)
    <3>1. invocation[d].kind \in {"redact", "detect", "restore", "inspect", "serve"}
      BY <2>1, InvocationsAssumption
    <3>2. QED
      BY <2>1, <2>3, <3>1 DEF Resolve, GoTo, ConfigIInv
  <2>4. CASE Settings.type = "legacy" /\ End(d, "configuration refused")
    <3>1. config.type = "legacy"
      BY <2>4 DEF Settings, DefaultConfig
    <3>2. QED
      BY <2>1, <2>4, <3>1 DEF End, ConfigIInv
  <2>5. QED
    BY <1>1, <2>2, <2>3, <2>4 DEF LoadConfig
<1>2. CASE OpenConfig(d)
  <2>1. config.type # "legacy" /\ invocation' = invocation
    BY <1>2 DEF OpenConfig, ConfigIInv
  <2>2. CASE config' = EmptyFile /\ GoTo(d, "writing config")
    <3>1. config'.type # "legacy"
      BY <2>2 DEF EmptyFile
    <3>2. QED
      BY <1>2, <2>1, <2>2, <3>1 DEF OpenConfig, GoTo, ConfigIInv
  <2>3. CASE End(d, "failed") /\ UNCHANGED config
    BY <1>2, <2>1, <2>3 DEF OpenConfig, End, ConfigIInv
  <2>4. QED
    BY <1>2, <2>2, <2>3 DEF OpenConfig
<1>3. CASE WriteConfig(d)
  <2>1. /\ config.type # "legacy" /\ invocation' = invocation
        /\ invocation[d] \in Invocations[d]
    BY <1>3 DEF WriteConfig, ConfigIInv
  <2>2. CASE config' = DefaultConfig /\ Resolve(d, DefaultConfig)
    <3>1. config'.type # "legacy"
      BY <2>2 DEF DefaultConfig
    <3>2. QED
      BY <2>1, <2>2, <3>1 DEF Resolve, GoTo, ConfigIInv
  <2>3. CASE End(d, "failed") /\ UNCHANGED config
    BY <1>3, <2>1, <2>3 DEF WriteConfig, End, ConfigIInv
  <2>4. QED
    BY <1>3, <2>2, <2>3 DEF WriteConfig
<1>4. QED
  BY <1>1, <1>2, <1>3

\* A configuration is refused only if it is of an older version: the file that
\* another command is about to create, missing, empty or complete, never is.
THEOREM CreatedIsAccepted == Spec => []CreatedConfigAccepted
<1>1. Init => ConfigIInv
  BY DEF Init, ConfigIInv
<1>2. ConfigIInv /\ [Next]_vars => ConfigIInv'
  <2> SUFFICES ASSUME ConfigIInv, [Next]_vars PROVE ConfigIInv'
    OBVIOUS
  <2>1. CASE UNCHANGED vars
    BY <2>1 DEF vars, ConfigIInv
  <2>2. CASE Next
    BY <2>2, ConfigUnchanged, ConfigStep DEF Next
  <2>3. QED
    BY <2>1, <2>2
<1>3. ConfigIInv => CreatedConfigAccepted
  BY DEF ConfigIInv, CreatedConfigAccepted
<1>4. QED
  BY <1>1, <1>2, <1>3, PTL DEF Spec
=============================================================================
