--------------------------- MODULE StartUpProofs ---------------------------
(***************************************************************************)
(* Proofs about StartUp, for every limit of descriptors, whatever the      *)
(* caller left open, for every list of configuration directories, and      *)
(* whichever calls fail.                                                   *)
(***************************************************************************)
EXTENDS StartUp, FiniteSetTheorems, TLAPS

\* The calls of init_oly from one of them on.
FromAtExit   == {"atexit", "ready"}
FromRegexps  == {"regexps"} \cup FromAtExit
FromQueue    == {"queue"} \cup FromRegexps
FromHome     == {"home", "dir", "defaults"} \cup FromQueue
FromConfig   == {"config"} \cup FromHome
FromState    == {"state"} \cup FromConfig
FromMessages == {"messages"} \cup FromState
FromResource == {"resource"} \cup FromMessages
FromCleanEnv == {"cleanenv", "u_init", "names", "locale", "io"} \cup FromResource
FromStderr   == {"stderr"} \cup FromCleanEnv
FromStdout   == {"stdout"} \cup FromStderr
FromStdin    == {"stdin"} \cup FromStdout
Calls        == {"alloc", "close_files"} \cup FromStdin

\* The descriptors: what the caller left open is gone, and each standard stream is
\* there once it has been looked at.
FdInv ==
  /\ pc \in FromStdin => \A i \in Fds \ Std : i < limit => fd[i] # "caller"
  /\ pc \in FromStdout => fd[0] # "closed"
  /\ pc \in FromStderr => fd[1] # "closed"
  /\ pc \in FromCleanEnv => fd[2] # "closed"
  /\ \A i \in Std : fd[i] # "config"

\* The streams, and what the fields of oly own.
MemoryInv ==
  /\ pc \in Calls \ FromResource => streams = {}
  /\ pc \in FromResource => streams = Streams
  /\ pc \in {"locale", "io"} \cup FromResource =>
       memory["program_name"] = "live" /\ memory["resource_dir"] = "live"
  /\ pc \in FromMessages \cup {"close"} => memory["data"] = "live"
  /\ pc \in FromState => memory["resource"] = "live"
  /\ pc \in FromConfig => memory["state"] = "live"
  /\ pc \in FromRegexps => memory["node_queue"] = "live"

\* The static variables and the configuration files.
StaticInv ==
  /\ pc \in FromState => "message_data" \in static
  /\ pc \in FromHome => "config_data" \in static
  /\ pc \in FromAtExit => "simple_regexp" \in static
  /\ files \in [0 .. Dirs -> {"none", "good", "broken"}]
  /\ file_loaded => \E i \in DOMAIN files : files[i] = "good"
  /\ pc \in FromQueue => file_loaded
  /\ pc = "dir" => dir < Dirs

\* How the program ended.
EndInv ==
  /\ pc \in Calls \cup {"close", "end"}
  /\ via \in {"none", "text", "message", "abort"}
  /\ pc = "close" => handlers
  /\ MessagesReady
  /\ AssertionsHold

Inv == StartUpType /\ FdInv /\ MemoryInv /\ StaticInv /\ EndInv

USE DEF FromAtExit, FromRegexps, FromQueue, FromHome, FromConfig, FromState, FromMessages,
        FromResource, FromCleanEnv, FromStderr, FromStdout, FromStdin, Calls

-----------------------------------------------------------------------------
LEMMA InvInit == Init => Inv
<1> SUFFICES ASSUME Init PROVE Inv
  OBVIOUS
<1>1. StartUpType
  BY StartUpAssumption DEF Init, StartUpType, Nothing, Streams
<1>2. FdInv
  BY StartUpAssumption DEF Init, FdInv, Fds, Std
<1>3. MemoryInv /\ StaticInv /\ EndInv
  BY DEF Init, MemoryInv, StaticInv, EndInv, MessagesReady, AssertionsHold
<1> QED BY <1>1, <1>2, <1>3 DEF Inv

\* A call that fails and is not an assertion ends the program; a message needs the
\* table of messages.
LEMMA Failure ==
  ASSUME Inv, Stays, NEW from \in Calls, NEW why, NEW how \in {"text", "message", "abort"},
         Ends(from, why, how),
         why \notin {"wrong descriptor", "assertion"},
         how = "message" => from \in FromState
  PROVE  Inv'
<1> USE DEF Ends, Stays, outside, search
<1>1. StartUpType'
  BY DEF Inv, StartUpType
<1>2. FdInv'
  BY DEF Inv, FdInv, Fds, Std
<1>3. MemoryInv'
  BY DEF Inv, MemoryInv, StartUpType
<1>4. StaticInv'
  BY DEF Inv, StaticInv
<1>5. EndInv'
  <2>1. MessagesReady'
    BY DEF Inv, MemoryInv, StaticInv, MessagesReady, Streams
  <2> QED BY <2>1 DEF Inv, EndInv, AssertionsHold
<1> QED BY <1>1, <1>2, <1>3, <1>4, <1>5 DEF Inv

LEMMA ExitFails ==
  ASSUME Inv, NEW from \in Calls, NEW why, why \notin {"wrong descriptor", "assertion"},
         Exits(from, why)
  PROVE  Inv'
<1>1. Ends(from, why, "text") /\ Stays
  BY DEF Exits
<1> QED BY <1>1, Failure

LEMMA AbortFails ==
  ASSUME Inv, NEW from \in Calls, NEW why, why \notin {"wrong descriptor", "assertion"},
         Aborts(from, why)
  PROVE  Inv'
<1>1. Ends(from, why, "abort") /\ Stays
  BY DEF Aborts
<1> QED BY <1>1, Failure

LEMMA DeathFails ==
  ASSUME Inv, NEW from \in FromState, NEW why, why \notin {"wrong descriptor", "assertion"},
         Dies(from, why)
  PROVE  Inv'
<1>1. Ends(from, why, "message") /\ Stays
  BY DEF Dies
<1>2. from \in Calls
  OBVIOUS
<1> QED BY <1>1, <1>2, Failure

\* The first free descriptor.
LEMMA FirstFree ==
  ASSUME StartUpType, NEW i \in Closed, \A j \in Closed : i <= j
  PROVE  Min(Closed) = i
<1>1. Closed \subseteq Nat
  BY DEF Closed, Fds
<1>2. \E x \in Closed : \A y \in Closed : x <= y
  OBVIOUS
<1>3. Min(Closed) \in Closed /\ \A y \in Closed : Min(Closed) <= y
  BY <1>2 DEF Min
<1>4. Min(Closed) <= i /\ i <= Min(Closed)
  BY <1>3
<1>5. Min(Closed) \in Nat /\ i \in Nat
  BY <1>1, <1>3
<1> QED
  BY <1>4, <1>5

\* Each standard stream gets the descriptor it has to have.
LEMMA StdOpened ==
  ASSUME Inv, NEW name \in DOMAIN StdAt, pc = name, fd[StdAt[name]] = "closed",
         NEW i \in Closed, i = Min(Closed)
  PROVE  i = StdAt[name]
<1>1. StdAt[name] \in Fds /\ StdAt[name] \in 0 .. 2
  BY StartUpAssumption DEF StdAt, Fds
<1>2. StdAt[name] \in Closed
  BY <1>1 DEF Inv, StartUpType, Closed
<1>3. \A j \in 0 .. StdAt[name] - 1 : fd[j] # "closed"
  BY DEF Inv, FdInv, StdAt
<1>4. \A j \in Closed : StdAt[name] <= j
  BY <1>1, <1>3 DEF Closed, Fds
<1> QED
  BY <1>2, <1>4, FirstFree DEF Inv

\* A step that goes on without touching the descriptors.
LEMMA FdKept ==
  ASSUME Inv, UNCHANGED <<fd, limit>>, NEW from \in Calls, NEW to \in Calls, Goes(from, to),
         from \in FromStdin => to \in FromStdin,
         to \in FromStdin => from \in FromStdin,
         to \in FromStdout => from \in FromStdout,
         to \in FromStderr => from \in FromStderr,
         to \in FromCleanEnv => from \in FromCleanEnv
  PROVE  FdInv'
  BY DEF Inv, FdInv, Goes, Fds, Std

LEMMA SuccessUpToIo ==
  ASSUME Inv,
         \/ Goes("alloc", "close_files") /\ Stays
         \/ CloseFiles \/ \E name \in DOMAIN StdAt : CheckStd(name)
         \/ CleanEnv \/ UInit \/ Names \/ InitLocale \/ InitIo
  PROVE  Inv'
<1>1. CASE Goes("alloc", "close_files") /\ Stays
  <2> USE <1>1 DEF Goes, Stays, outside, search, end
  <2>1. FdInv' BY FdKept
  <2>2. StartUpType' BY DEF Inv, StartUpType
  <2>3. MemoryInv' BY DEF Inv, MemoryInv
  <2>4. StaticInv' /\ EndInv'
    BY DEF Inv, StaticInv, EndInv, MessagesReady, AssertionsHold
  <2> QED BY <2>1, <2>2, <2>3, <2>4 DEF Inv
<1>2. CASE CloseFiles
  <2>1. CASE Aborts("close_files", "getrlimit")
    BY <2>1, AbortFails
  <2>2. CASE /\ Goes("close_files", "stdin")
             /\ fd' = [i \in Fds |-> IF i \in 3 .. limit - 1 THEN "closed" ELSE fd[i]]
             /\ UNCHANGED <<outside, block, memory, streams, static, handlers, search>>
    <3> USE <2>2 DEF Goes, outside, search, end
    <3>1. StartUpType'
      BY DEF Inv, StartUpType, Fds
    <3>2. FdInv'
      BY StartUpAssumption DEF Inv, FdInv, StartUpType, Fds, Std
    <3>3. MemoryInv' BY DEF Inv, MemoryInv
    <3>4. StaticInv' /\ EndInv'
      BY DEF Inv, StaticInv, EndInv, MessagesReady, AssertionsHold
    <3> QED BY <3>1, <3>2, <3>3, <3>4 DEF Inv
  <2> QED BY <1>2, <2>1, <2>2 DEF CloseFiles
<1>3. CASE \E name \in DOMAIN StdAt : CheckStd(name)
  <2>1. PICK name \in DOMAIN StdAt : CheckStd(name)
    BY <1>3
  <2>2. /\ name \in {"stdin", "stdout", "stderr"} /\ name \in Calls
        /\ AfterStd[name] \in {"stdout", "stderr", "cleanenv"}
    BY DEF StdAt, AfterStd
  <2>3. CASE fd[StdAt[name]] = "closed" /\ OpenDevnull(name)
    <3>1. PICK i \in Closed : Opens(i, "devnull")
      BY <2>3 DEF OpenDevnull
    <3>2. pc = name
      BY <2>3 DEF OpenDevnull, Goes, Ends
    <3>3. i = StdAt[name]
      BY <2>3, <3>1, <3>2, StdOpened DEF Opens
    <3>4. i \in Fds /\ fd' = [fd EXCEPT ![i] = "devnull"] /\ fd \in [Fds -> {"closed", "caller", "devnull", "config"}]
      BY <3>1 DEF Opens, Closed, Inv, StartUpType
    <3>5. fd'[StdAt[name]] = "devnull"
      BY <3>3, <3>4
    <3>6. Goes(name, AfterStd[name])
      BY <2>3, <3>5 DEF OpenDevnull
    <3>7. UNCHANGED <<outside, block, memory, streams, static, handlers, search>>
      BY <2>3 DEF OpenDevnull
    <3> USE <2>2, <3>6, <3>7 DEF Goes, outside, search, end
    <3>8. StartUpType'
      BY <3>4 DEF Inv, StartUpType, AfterStd
    <3>9. FdInv'
      BY <3>3, <3>4 DEF Inv, FdInv, StdAt, AfterStd, Fds, Std
    <3>10. MemoryInv' BY DEF Inv, MemoryInv, AfterStd
    <3>11. StaticInv' /\ EndInv'
      BY DEF Inv, StaticInv, EndInv, MessagesReady, AssertionsHold
    <3> QED BY <3>8, <3>9, <3>10, <3>11 DEF Inv
  <2>4. CASE fd[StdAt[name]] # "closed" /\ Goes(name, AfterStd[name]) /\ Stays
    <3> USE <2>2, <2>4 DEF Goes, Stays, outside, search, end
    <3>1. StartUpType' BY DEF Inv, StartUpType, AfterStd
    <3>2. FdInv' BY DEF Inv, FdInv, StdAt, AfterStd, Fds, Std
    <3>3. MemoryInv' BY DEF Inv, MemoryInv, AfterStd
    <3>4. StaticInv' /\ EndInv'
      BY DEF Inv, StaticInv, EndInv, MessagesReady, AssertionsHold
    <3> QED BY <3>1, <3>2, <3>3, <3>4 DEF Inv
  <2>5. CASE Aborts(name, "fstat") \/ Aborts(name, "no /dev/null")
    BY <2>2, <2>5, AbortFails
  <2> QED BY <2>1, <2>3, <2>4, <2>5 DEF CheckStd
<1>4. CASE CleanEnv
  <2>1. CASE Exits("cleanenv", "memory")
    BY <2>1, ExitFails
  <2>2. CASE Aborts("cleanenv", "no password entry")
    BY <2>2, AbortFails
  <2>3. ASSUME Goes("cleanenv", "u_init"),
               DOMAIN block' = DOMAIN Nothing,
               UNCHANGED <<outside, fd, memory, streams, static, handlers, search>>
        PROVE  Inv'
    <3> USE <2>3 DEF Goes, outside, search, end
    <3>1. FdInv' BY FdKept
    <3>2. StartUpType' BY DEF Inv, StartUpType
    <3>3. MemoryInv' BY DEF Inv, MemoryInv
    <3>4. StaticInv' /\ EndInv'
      BY DEF Inv, StaticInv, EndInv, MessagesReady, AssertionsHold
    <3> QED BY <3>1, <3>2, <3>3, <3>4 DEF Inv
  <2>4. ASSUME NEW set, NEW value,
               block' = [allocated |-> NewSize(value),
                         written |-> RestrictedBytes + PreservedBytes(value)
                                       + ArraySize(value) * PointerSize,
                         array |-> ArraySize(value),
                         pointers |-> Cardinality(Restricted) + Cardinality(set)]
        PROVE  DOMAIN block' = DOMAIN Nothing
    BY <2>4 DEF Nothing
  <2> QED BY <1>4, <2>1, <2>2, <2>3, <2>4 DEF CleanEnv
<1>5. CASE UInit \/ InitLocale
  <2>1. CASE Exits("u_init", "ICU") \/ Exits("locale", "locale") \/ Exits("locale", "encoding")
    BY <2>1, ExitFails
  <2>2. CASE (Goes("u_init", "names") \/ Goes("locale", "io")) /\ Stays
    <3> USE <2>2 DEF Goes, Stays, outside, search, end
    <3>1. FdInv' BY FdKept
    <3>2. StartUpType' BY DEF Inv, StartUpType
    <3>3. MemoryInv' BY DEF Inv, MemoryInv
    <3>4. StaticInv' /\ EndInv'
      BY DEF Inv, StaticInv, EndInv, MessagesReady, AssertionsHold
    <3> QED BY <3>1, <3>2, <3>3, <3>4 DEF Inv
  <2> QED BY <1>5, <2>1, <2>2 DEF UInit, InitLocale
<1>6. CASE Names
  <2>1. CASE Exits("names", "memory")
    BY <2>1, ExitFails
  <2>2. CASE Goes("names", "locale") /\ Owns({"program_name", "resource_dir"})
    <3> USE <2>2 DEF Goes, Owns, outside, search, end
    <3>1. FdInv' BY FdKept
    <3>2. StartUpType' BY DEF Inv, StartUpType
    <3>3. MemoryInv' BY DEF Inv, MemoryInv, Owned
    <3>4. StaticInv' /\ EndInv'
      BY DEF Inv, StaticInv, EndInv, MessagesReady, AssertionsHold
    <3> QED BY <3>1, <3>2, <3>3, <3>4 DEF Inv
  <2> QED BY <1>6, <2>1, <2>2 DEF Names
<1>7. CASE InitIo
  <2>1. CASE Exits("io", "streams")
    BY <2>1, ExitFails
  <2>2. CASE streams = {} /\ Goes("io", "resource") /\ streams' = Streams
             /\ UNCHANGED <<outside, fd, block, memory, static, handlers, search>>
    <3> USE <2>2 DEF Goes, outside, search, end
    <3>1. FdInv' BY FdKept
    <3>2. StartUpType' BY DEF Inv, StartUpType
    <3>3. MemoryInv' BY DEF Inv, MemoryInv
    <3>4. StaticInv' /\ EndInv'
      BY DEF Inv, StaticInv, EndInv, MessagesReady, AssertionsHold
    <3> QED BY <3>1, <3>2, <3>3, <3>4 DEF Inv
  <2>3. CASE streams # {} /\ Aborts("io", "assertion")
    BY <2>3 DEF Aborts, Ends, Inv, MemoryInv
  <2> QED BY <1>7, <2>1, <2>2, <2>3 DEF InitIo
<1> QED BY <1>1, <1>2, <1>3, <1>4, <1>5, <1>6, <1>7

\* The steps of the second half that set fields of oly or a static variable.
LEMMA FieldsSet ==
  ASSUME Inv, NEW from \in FromResource, NEW to \in FromMessages, Goes(from, to),
         NEW what \in SUBSET Owned, Owns(what),
         <<from, to>> \in {<<"resource", "messages">>, <<"state", "config">>, <<"queue", "regexps">>},
         to = "messages" => "data" \in what,
         to = "config" => "state" \in what,
         to = "regexps" => "node_queue" \in what
  PROVE  Inv'
<1> USE DEF Goes, Owns, outside, search, end
<1>1. FdInv' BY FdKept
<1>2. StartUpType' BY DEF Inv, StartUpType
<1>3. MemoryInv' BY DEF Inv, MemoryInv, Owned
<1>4. StaticInv' BY DEF Inv, StaticInv
<1>5. EndInv' BY DEF Inv, EndInv, MessagesReady, AssertionsHold
<1> QED BY <1>1, <1>2, <1>3, <1>4, <1>5 DEF Inv

LEMMA StaticSet ==
  ASSUME Inv, HasTables, NEW from \in FromMessages, NEW to \in FromState, Goes(from, to),
         NEW variable, Sets(variable),
         <<from, to, variable>> \in {<<"messages", "state", "message_data">>,
                                    <<"config", "home", "config_data">>,
                                    <<"regexps", "atexit", "simple_regexp">>}
  PROVE  Inv'
<1> USE DEF Goes, Sets, HasTables, outside, search, end
<1>1. FdInv' BY FdKept
<1>2. StartUpType' BY DEF Inv, StartUpType
<1>3. MemoryInv' BY DEF Inv, MemoryInv, Owned
<1>4. StaticInv' BY DEF Inv, StaticInv
<1>5. EndInv' BY DEF Inv, EndInv, MessagesReady, AssertionsHold
<1> QED BY <1>1, <1>2, <1>3, <1>4, <1>5 DEF Inv

LEMMA SuccessFromResource ==
  ASSUME Inv,
         \/ InitPrimaryResource \/ InitErrmsg \/ NewState \/ InitConfig \/ LoadDefaults
         \/ OpenNodeQueue \/ InitRegexpData \/ AtExit \/ Quit
  PROVE  Inv'
<1>1. CASE InitPrimaryResource
  <2>1. CASE Exits("resource", "memory")
    BY <2>1, ExitFails
  <2>2. CASE Goes("resource", "messages") /\ Owns({"data", "resource"})
    <3>1. {"data", "resource"} \in SUBSET Owned BY DEF Owned
    <3> QED BY <2>2, <3>1, FieldsSet
  <2>3. CASE Goes("resource", "messages") /\ Owns({"data"})
    <3>1. {"data"} \in SUBSET Owned BY DEF Owned
    <3> QED BY <2>3, <3>1, FieldsSet
  <2> QED BY <1>1, <2>1, <2>2, <2>3 DEF InitPrimaryResource
<1>2. CASE InitErrmsg
  <2>1. CASE Exits("messages", "no messages")
    BY <2>1, ExitFails
  <2>2. CASE HasTables /\ Goes("messages", "state") /\ Sets("message_data")
    BY <2>2, StaticSet
  <2> QED BY <1>2, <2>1, <2>2 DEF InitErrmsg
<1>3. CASE NewState
  <2>1. CASE Dies("state", "NOMEM")
    BY <2>1, DeathFails
  <2>2. CASE Goes("state", "config") /\ Owns({"state"})
    <3>1. {"state"} \in SUBSET Owned BY DEF Owned
    <3> QED BY <2>2, <3>1, FieldsSet
  <2> QED BY <1>3, <2>1, <2>2 DEF NewState
<1>4. CASE InitConfig
  <2>1. CASE Exits("config", "no configuration table")
    BY <2>1, ExitFails
  <2>2. CASE Dies("config", "NOMEM")
    BY <2>2, DeathFails
  <2>3. CASE HasTables /\ Goes("config", "home") /\ Sets("config_data")
    BY <2>3, StaticSet
  <2> QED BY <1>4, <2>1, <2>2, <2>3 DEF InitConfig
<1>5. CASE LoadDefaults
  <2>1. CASE Dies("defaults", "CONFIG_FILE_NOT_FOUND")
    BY <2>1, DeathFails
  <2>2. CASE file_loaded /\ Goes("defaults", "queue") /\ Stays
    <3> USE <2>2 DEF Goes, Stays, outside, search, end
    <3>1. FdInv' BY FdKept
    <3>2. StartUpType' BY DEF Inv, StartUpType
    <3>3. MemoryInv' BY DEF Inv, MemoryInv
    <3>4. StaticInv' /\ EndInv'
      BY DEF Inv, StaticInv, EndInv, MessagesReady, AssertionsHold
    <3> QED BY <3>1, <3>2, <3>3, <3>4 DEF Inv
  <2> QED BY <1>5, <2>1, <2>2 DEF LoadDefaults
<1>6. CASE OpenNodeQueue
  <2>1. CASE Dies("queue", "NOMEM")
    BY <2>1, DeathFails
  <2>2. CASE Goes("queue", "regexps") /\ Owns({"node_queue"})
    <3>1. {"node_queue"} \in SUBSET Owned BY DEF Owned
    <3> QED BY <2>2, <3>1, FieldsSet
  <2> QED BY <1>6, <2>1, <2>2 DEF OpenNodeQueue
<1>7. CASE InitRegexpData
  <2>1. CASE Exits("regexps", "number format") \/ Exits("regexps", "no regular expressions")
    BY <2>1, ExitFails
  <2>2. CASE Dies("regexps", "ILLEGAL_TAG")
    BY <2>2, DeathFails
  <2>3. CASE HasTables /\ Goes("regexps", "atexit") /\ Sets("simple_regexp")
    BY <2>3, StaticSet
  <2> QED BY <1>7, <2>1, <2>2, <2>3 DEF InitRegexpData
<1>8. CASE AtExit
  <2> USE <1>8 DEF AtExit, Goes, outside, search, end
  <2>1. FdInv' BY FdKept
  <2>2. StartUpType' BY DEF Inv, StartUpType
  <2>3. MemoryInv' BY DEF Inv, MemoryInv
  <2>4. StaticInv' /\ EndInv'
    BY DEF Inv, StaticInv, EndInv, MessagesReady, AssertionsHold
  <2> QED BY <2>1, <2>2, <2>3, <2>4 DEF Inv
<1>9. CASE Quit
  <2>1. CASE Exits("ready", "done")
    BY <2>1, ExitFails
  <2>2. CASE Dies("ready", "status")
    BY <2>2, DeathFails
  <2> QED BY <1>9, <2>1, <2>2 DEF Quit
<1> QED BY <1>1, <1>2, <1>3, <1>4, <1>5, <1>6, <1>7, <1>8, <1>9

\* The files: a descriptor that is free is none of the standard ones by now.
LEMMA SuccessReads ==
  ASSUME Inv, LoadHome \/ LoadDir
  PROVE  Inv'
<1>1. PICK from \in {"home", "dir"}, at \in 0 .. Dirs, status \in {"OKAY", "CONFIG_FILE_NOT_FOUND", "LIBYAML_INIT"} :
        Reads(from, at, status)
  <2>1. CASE LoadHome
    BY <2>1, StartUpAssumption DEF LoadHome
  <2>2. CASE LoadDir
    <3>1. pc = "dir" /\ Reads("dir", dir + 1, StatusAtToken)
      BY <2>2 DEF LoadDir, Reads
    <3>2. dir + 1 \in 0 .. Dirs
      BY <3>1, StartUpAssumption DEF Inv, StaticInv, StartUpType
    <3>3. StatusAtToken \in {"OKAY", "CONFIG_FILE_NOT_FOUND", "LIBYAML_INIT"}
      BY DEF Inv, StartUpType, StatusAtToken
    <3> QED BY <3>1, <3>2, <3>3
  <2> QED BY <2>1, <2>2
<1>2. CASE Exits(from, "parser error")
  BY <1>2, ExitFails
<1>3. CASE /\ Goes(from, NextDir(at)) /\ Fopens(at, status) /\ dir' = at
           /\ UNCHANGED <<outside, block, memory, streams, static, handlers>>
  <2>1. \/ fd' = fd
        \/ \E i \in Closed : fd' = [fd EXCEPT ![i] = "config"]
    BY <1>3 DEF Fopens, Opens
  <2>2. /\ file_status' \in {"OKAY", "CONFIG_FILE_NOT_FOUND", "LIBYAML_INIT"}
        /\ file_loaded' # file_loaded => file_loaded' = TRUE /\ files[at] = "good"
    BY <1>3 DEF Fopens, Loads
  <2>3. NextDir(at) \in {"dir", "defaults"} /\ (NextDir(at) = "dir" => at < Dirs)
    BY DEF NextDir
  <2> USE <1>3 DEF Goes, outside, end
  <2>4. StartUpType'
    BY <2>1, <2>2, <2>3 DEF Inv, StartUpType, Closed
  <2>5. FdInv'
    BY <2>1, <2>3, StartUpAssumption DEF Inv, StartUpType, FdInv, Closed, Fds, Std
  <2>6. MemoryInv'
    BY <2>3 DEF Inv, MemoryInv
  <2>7. StaticInv'
    BY <2>2, <2>3 DEF Inv, StaticInv
  <2>8. EndInv'
    BY <2>3 DEF Inv, EndInv, MessagesReady, AssertionsHold
  <2> QED BY <2>4, <2>5, <2>6, <2>7, <2>8 DEF Inv
<1> QED BY <1>1, <1>2, <1>3 DEF Reads

LEMMA CloseKeeps ==
  ASSUME Inv, CloseOly
  PROVE  Inv'
<1>1. pc = "close" /\ memory["data"] = "live"
  BY DEF CloseOly, Inv, MemoryInv
<1>2. /\ pc' = "end" /\ UNCHANGED end
      /\ memory' = Frees({"data", "resource", "program_name", "resource_dir"})
      /\ streams' = streams \ {"stdout", "stdin"}
      /\ UNCHANGED <<outside, fd, block, static, handlers, search>>
  BY <1>1 DEF CloseOly
<1> USE <1>1, <1>2 DEF end, outside, search
<1>3. StartUpType' BY DEF Inv, StartUpType, Frees
<1>4. FdInv' BY DEF Inv, FdInv, Fds, Std
<1>5. MemoryInv' BY DEF Inv, MemoryInv
<1>6. StaticInv' BY DEF Inv, StaticInv
<1>7. EndInv' BY DEF Inv, EndInv, MessagesReady, AssertionsHold
<1> QED BY <1>3, <1>4, <1>5, <1>6, <1>7 DEF Inv

LEMMA InvInductive == Inv /\ [Next]_vars => Inv'
<1> SUFFICES ASSUME Inv, [Next]_vars PROVE Inv'
  OBVIOUS
<1>1. CASE Alloc
  BY <1>1, ExitFails, SuccessUpToIo DEF Alloc
<1>2. CASE \/ CloseFiles \/ \E name \in DOMAIN StdAt : CheckStd(name)
           \/ CleanEnv \/ UInit \/ Names \/ InitLocale \/ InitIo
  BY <1>2, SuccessUpToIo
<1>3. CASE \/ InitPrimaryResource \/ InitErrmsg \/ NewState \/ InitConfig \/ LoadDefaults
           \/ OpenNodeQueue \/ InitRegexpData \/ AtExit \/ Quit
  BY <1>3, SuccessFromResource
<1>4. CASE LoadHome \/ LoadDir
  BY <1>4, SuccessReads
<1>5. CASE CloseOly
  BY <1>5, CloseKeeps
<1>6. CASE UNCHANGED vars
  <2> USE <1>6 DEF vars, outside, search, end
  <2>1. StartUpType' BY DEF Inv, StartUpType
  <2>2. FdInv' BY DEF Inv, FdInv, Fds, Std
  <2>3. MemoryInv' BY DEF Inv, MemoryInv
  <2>4. StaticInv' /\ EndInv'
    BY DEF Inv, StaticInv, EndInv, MessagesReady, AssertionsHold
  <2> QED BY <2>1, <2>2, <2>3, <2>4 DEF Inv
<1> QED BY <1>1, <1>2, <1>3, <1>4, <1>5, <1>6 DEF Next

THEOREM Invariant == Spec => []Inv
<1>1. Init => Inv BY InvInit
<1>2. Inv /\ [Next]_vars => Inv' BY InvInductive
<1> QED BY <1>1, <1>2, PTL DEF Spec

-----------------------------------------------------------------------------
\* Every variable keeps its type, the exit handler is there from the last call of
\* init_oly on, and the program has ended exactly when it told why.
THEOREM TypeCorrect == Spec => []StartUpType
  BY Invariant, PTL DEF Inv

\* Whichever descriptors the caller of the program left open or closed, the files that
\* init_oly opens never become a standard stream.
THEOREM StdFilesApart == Spec => []FilesApart
<1>1. Inv => FilesApart
  BY StartUpAssumption DEF Inv, StartUpType, FdInv, FilesApart, Fds, Std
<1> QED BY <1>1, Invariant, PTL

\* An error told by its message finds the table of messages and the stream for it,
\* also in a program that dies after close_oly was registered.
THEOREM MessagesAreReady == Spec => []MessagesReady
  BY Invariant, PTL DEF Inv, EndInv

\* The assertions of open_devnull, init_io and close_oly hold, whichever call fails.
THEOREM NoAssertionFails == Spec => []AssertionsHold
  BY Invariant, PTL DEF Inv, EndInv

\* An init_oly that returns has set up all that oly_run uses, and has read a
\* configuration.
THEOREM ReturnIsReady == Spec => []ReadyMeansReady
<1>1. Inv => ReadyMeansReady
  BY DEF Inv, StartUpType, MemoryInv, StaticInv, ReadyMeansReady, Owned
<1> QED BY <1>1, Invariant, PTL

-----------------------------------------------------------------------------
(* The search for a configuration file.                                    *)

\* While no file was loaded no descriptor was spent on one, so that fopen fails for
\* files that are not there only; every file looked for so far is missing.  A status
\* that is not forgotten at the next directory cannot arise without libyaml's failure.
SearchInv ==
  (libyaml /\ limit > 3) =>
    /\ file_status # "LIBYAML_INIT"
    /\ (pc \in FromStdin /\ ~file_loaded) => fd[3] = "closed"
    /\ (pc \in {"dir", "defaults"} /\ ~file_loaded) =>
         \A i \in 0 .. dir : files[i] = "none"
    /\ pc = "defaults" => dir = Dirs
    /\ NotFoundIsTrue

LEMMA SearchInit == Init => SearchInv
  BY DEF Init, SearchInv, NotFoundIsTrue

\* A step outside the search.
LEMMA SearchKept ==
  ASSUME SearchInv, UNCHANGED <<outside, search>>,
         pc' \in FromStdin => (pc \in FromStdin /\ fd'[3] = fd[3]) \/ fd'[3] = "closed" \/ limit <= 3,
         pc' \notin {"dir", "defaults"},
         cause' = cause \/ cause' # "CONFIG_FILE_NOT_FOUND",
         limit \in Nat
  PROVE  SearchInv'
  BY DEF SearchInv, NotFoundIsTrue, outside, search

LEMMA FailureKeepsSearch ==
  ASSUME Inv, SearchInv, NEW from, NEW why, NEW how, Ends(from, why, how), Stays,
         why # "CONFIG_FILE_NOT_FOUND"
  PROVE  SearchInv'
<1>1. pc' \in {"close", "end"} /\ cause' = why /\ UNCHANGED <<outside, search>>
  BY DEF Ends, Stays
<1>2. limit \in Nat
  BY StartUpAssumption DEF Inv, StartUpType
<1> QED BY <1>1, <1>2, SearchKept

\* freopen takes a standard descriptor.
LEMMA StdKeepsSearch ==
  ASSUME Inv, SearchInv, NEW name \in DOMAIN StdAt, CheckStd(name)
  PROVE  SearchInv'
<1>1. limit \in Nat /\ fd \in [Fds -> {"closed", "caller", "devnull", "config"}] /\ 3 \in Fds
  BY StartUpAssumption DEF Inv, StartUpType, Fds
<1>2. name \in {"stdin", "stdout", "stderr"} /\ AfterStd[name] \in {"stdout", "stderr", "cleanenv"}
  BY DEF StdAt, AfterStd
<1>3. CASE fd[StdAt[name]] = "closed" /\ OpenDevnull(name)
  <2>1. PICK i \in Closed : i = Min(Closed) /\ fd' = [fd EXCEPT ![i] = "devnull"]
    BY <1>3 DEF OpenDevnull, Opens
  <2>2. /\ pc = name /\ pc' \in {AfterStd[name], "close", "end"}
        /\ cause' = cause \/ cause' = "wrong descriptor"
        /\ UNCHANGED <<outside, search>>
    BY <1>3 DEF OpenDevnull, Goes, Ends, end
  <2>3. i = StdAt[name]
    BY <1>3, <2>1, <2>2, StdOpened
  <2>4. fd'[3] = fd[3]
    BY <1>1, <2>1, <2>3 DEF StdAt
  <2> QED BY <1>1, <1>2, <2>2, <2>4, SearchKept
<1>4. CASE Goes(name, AfterStd[name]) /\ Stays
  <2>1. /\ pc = name /\ pc' = AfterStd[name] /\ cause' = cause /\ fd' = fd
        /\ UNCHANGED <<outside, search>>
    BY <1>4 DEF Goes, Stays, end
  <2> QED BY <1>1, <1>2, <2>1, SearchKept
<1>5. CASE Aborts(name, "fstat") \/ Aborts(name, "no /dev/null")
  BY <1>5, FailureKeepsSearch DEF Aborts
<1> QED BY <1>3, <1>4, <1>5 DEF CheckStd

\* What one file does to the search.
LEMMA ReadKeepsSearch ==
  ASSUME Inv, SearchInv, LoadHome \/ LoadDir
  PROVE  SearchInv'
<1> SUFFICES ASSUME libyaml, limit > 3
             PROVE  SearchInv'
  <2>1. UNCHANGED <<libyaml, limit>>
    BY DEF LoadHome, LoadDir, Reads, Exits, Stays, outside
  <2> QED BY <2>1 DEF SearchInv
<1>1. /\ limit \in Nat /\ dir \in 0 .. Dirs /\ Dirs \in Nat
      /\ fd \in [Fds -> {"closed", "caller", "devnull", "config"}] /\ 3 \in Fds
      /\ files \in [0 .. Dirs -> {"none", "good", "broken"}]
  BY StartUpAssumption DEF Inv, StartUpType, StaticInv, Fds
<1>5. limit' = limit /\ files' = files /\ libyaml' = libyaml
  BY DEF LoadHome, LoadDir, Reads, Exits, Stays, outside
<1>6. 0 \in 0 .. Dirs
  BY <1>1
<1>2. PICK from \in {"home", "dir"}, at \in 0 .. Dirs :
        /\ pc = from /\ Reads(from, at, "OKAY")
        /\ (from = "dir" => at = dir + 1) /\ (from = "home" => at = 0)
  <2>1. CASE LoadHome
    <3>1. pc = "home" /\ Reads("home", 0, "OKAY")
      BY <2>1 DEF LoadHome, Reads
    <3> QED BY <1>6, <3>1
  <2>2. CASE LoadDir
    <3>1. pc = "dir" /\ Reads("dir", dir + 1, StatusAtToken)
      BY <2>2 DEF LoadDir, Reads
    <3>2. dir < Dirs
      BY <3>1 DEF Inv, StaticInv
    <3>3. dir + 1 \in 0 .. Dirs
      BY <1>1, <3>2
    <3>4. StatusAtToken = "OKAY"
      <4>1. file_status \in {"OKAY", "CONFIG_FILE_NOT_FOUND"}
        BY DEF SearchInv, Inv, StartUpType
      <4> QED BY <4>1 DEF StatusAtToken
    <3> QED BY <3>1, <3>3, <3>4
  <2> QED BY <2>1, <2>2
<1>3. CASE Exits(from, "parser error")
  BY <1>3, FailureKeepsSearch DEF Exits
<1>4. CASE Goes(from, NextDir(at)) /\ Fopens(at, "OKAY") /\ dir' = at
  <2>1. /\ pc' = NextDir(at) /\ pc' \in {"dir", "defaults"} /\ cause' = cause
        /\ pc' = "defaults" => at = Dirs
    BY <1>1, <1>4 DEF Goes, NextDir, end
  <2>2. NotFoundIsTrue'
    BY <1>5, <2>1 DEF SearchInv, NotFoundIsTrue
  <2>3. CASE file_status' = "OKAY" /\ file_loaded' = TRUE
    BY <1>4, <2>1, <2>2, <2>3 DEF SearchInv
  <2>4. CASE /\ files[at] = "none" \/ Closed = {}
             /\ file_status' = "CONFIG_FILE_NOT_FOUND"
             /\ UNCHANGED <<fd, file_loaded>>
    <3>1. ASSUME ~file_loaded
          PROVE  fd[3] = "closed" /\ \A i \in 0 .. at : files[i] = "none"
      <4>1. fd[3] = "closed"
        BY <1>2, <3>1 DEF SearchInv
      <4>2. 3 \in Closed
        BY <1>1, <4>1 DEF Closed
      <4>3. files[at] = "none"
        BY <2>4, <4>2
      <4>4. from = "dir" => \A i \in 0 .. dir : files[i] = "none"
        BY <1>2, <3>1 DEF SearchInv
      <4>5. \A i \in 0 .. at : i = at \/ (from = "dir" /\ i \in 0 .. dir)
        BY <1>1, <1>2
      <4> QED BY <4>1, <4>3, <4>4, <4>5
    <3>2. ~file_loaded' =>
            /\ fd'[3] = "closed"
            /\ \A i \in 0 .. dir' : files'[i] = "none"
      BY <1>4, <1>5, <2>4, <3>1
    <3>3. pc' = "defaults" => dir' = Dirs
      BY <1>4, <2>1
    <3> QED BY <2>2, <2>4, <3>2, <3>3 DEF SearchInv
  <2> QED BY <1>4, <2>3, <2>4 DEF Fopens, Loads
<1> QED BY <1>2, <1>3, <1>4 DEF Reads

LEMMA SearchInductive == Inv /\ SearchInv /\ [Next]_vars => SearchInv'
<1> SUFFICES ASSUME Inv, SearchInv, [Next]_vars PROVE SearchInv'
  OBVIOUS
<1>1. limit \in Nat /\ MaxFd >= 3 /\ MaxFd \in Nat
  BY StartUpAssumption DEF Inv, StartUpType
<1>2. CASE Alloc \/ UInit \/ Names \/ InitLocale \/ InitIo \/ CleanEnv
  <2>1. CASE Alloc
    BY <1>1, <2>1, SearchKept DEF Goes, Ends, Stays, end, Alloc, Exits
  <2>2. CASE UInit
    BY <1>1, <2>2, SearchKept DEF Goes, Ends, Stays, end, UInit, Exits
  <2>3. CASE Names
    BY <1>1, <2>3, SearchKept DEF Goes, Ends, Stays, end, Names, Exits, Owns
  <2>4. CASE InitLocale
    BY <1>1, <2>4, SearchKept DEF Goes, Ends, Stays, end, InitLocale, Exits
  <2>5. CASE InitIo
    BY <1>1, <2>5, SearchKept DEF Goes, Ends, Stays, end, InitIo, Exits, Aborts
  <2>6. CASE CleanEnv
    <3>1. \/ Goes("cleanenv", "u_init") /\ UNCHANGED <<outside, search, fd>>
          \/ Ends("cleanenv", "memory", "text") /\ Stays
          \/ Ends("cleanenv", "no password entry", "abort") /\ Stays
      BY <2>6 DEF CleanEnv, Exits, Aborts
    <3> QED BY <1>1, <3>1, SearchKept DEF Goes, Ends, Stays, end
  <2> QED BY <1>2, <2>1, <2>2, <2>3, <2>4, <2>5, <2>6
<1>3. CASE CloseFiles
  <2>1. CASE Aborts("close_files", "getrlimit")
    BY <2>1, FailureKeepsSearch DEF Aborts
  <2>2. CASE /\ Goes("close_files", "stdin")
             /\ fd' = [i \in Fds |-> IF i \in 3 .. limit - 1 THEN "closed" ELSE fd[i]]
             /\ UNCHANGED <<outside, block, memory, streams, static, handlers, search>>
    <3>1. fd'[3] = "closed" \/ limit <= 3
      BY <1>1, <2>2 DEF Fds
    <3> QED BY <1>1, <2>2, <3>1, SearchKept DEF Goes, end
  <2> QED BY <1>3, <2>1, <2>2 DEF CloseFiles
<1>4. ASSUME NEW name \in DOMAIN StdAt, CheckStd(name)
      PROVE  SearchInv'
  BY <1>4, StdKeepsSearch
<1>5. CASE \/ InitPrimaryResource \/ InitErrmsg \/ NewState \/ InitConfig \/ OpenNodeQueue
           \/ InitRegexpData \/ AtExit \/ Quit
  <2>1. CASE InitPrimaryResource
    BY <1>1, <2>1, SearchKept DEF Goes, Ends, Stays, end, InitPrimaryResource, Exits, Owns
  <2>2. CASE InitErrmsg
    BY <1>1, <2>2, SearchKept DEF Goes, Ends, Stays, end, InitErrmsg, Exits, Sets
  <2>3. CASE NewState
    BY <1>1, <2>3, SearchKept DEF Goes, Ends, Stays, end, NewState, Dies, Owns
  <2>4. CASE InitConfig
    BY <1>1, <2>4, SearchKept DEF Goes, Ends, Stays, end, InitConfig, Exits, Dies, Sets
  <2>5. CASE OpenNodeQueue
    BY <1>1, <2>5, SearchKept DEF Goes, Ends, Stays, end, OpenNodeQueue, Dies, Owns
  <2>6. CASE InitRegexpData
    BY <1>1, <2>6, SearchKept DEF Goes, Ends, Stays, end, InitRegexpData, Exits, Dies, Sets
  <2>7. CASE AtExit
    BY <1>1, <2>7, SearchKept DEF Goes, Ends, Stays, end, AtExit
  <2>8. CASE Quit
    BY <1>1, <2>8, SearchKept DEF Goes, Ends, Stays, end, Quit, Exits, Dies
  <2> QED BY <1>5, <2>1, <2>2, <2>3, <2>4, <2>5, <2>6, <2>7, <2>8
<1>6. CASE LoadHome \/ LoadDir
  BY <1>6, ReadKeepsSearch
<1>7. CASE LoadDefaults
  <2>1. CASE file_loaded /\ Goes("defaults", "queue") /\ Stays
    BY <1>1, <2>1, SearchKept DEF Goes, Stays, end
  <2>2. CASE ~file_loaded /\ Dies("defaults", "CONFIG_FILE_NOT_FOUND")
    <3>1. /\ pc = "defaults" /\ pc' \in {"close", "end"}
          /\ UNCHANGED <<libyaml, limit, files, file_status>>
      BY <2>2 DEF Dies, Ends, Stays, outside, search
    <3>2. (libyaml /\ limit > 3) => \A i \in 0 .. Dirs : files[i] = "none"
      BY <2>2, <3>1 DEF SearchInv
    <3>3. DOMAIN files = 0 .. Dirs
      BY DEF Inv, StaticInv
    <3> QED BY <3>1, <3>2, <3>3 DEF SearchInv, NotFoundIsTrue
  <2> QED BY <1>7, <2>1, <2>2 DEF LoadDefaults
<1>8. CASE CloseOly
  <2>1. /\ pc' = "end" /\ UNCHANGED <<outside, search>>
        /\ cause' = cause \/ cause' = "assertion"
    BY <1>8 DEF CloseOly, end
  <2> QED BY <1>1, <2>1, SearchKept
<1>9. CASE UNCHANGED vars
  BY <1>9 DEF vars, outside, search, end, SearchInv, NotFoundIsTrue
<1> QED BY <1>2, <1>3, <1>4, <1>5, <1>6, <1>7, <1>8, <1>9 DEF Next

\* A start-up that gives up for lack of a configuration file, while libyaml works and a
\* descriptor is left, has met none in any of the places.
THEOREM NotFoundMeansNone == Spec => []NotFoundIsTrue
<1>1. SearchInv => NotFoundIsTrue
  BY DEF SearchInv, NotFoundIsTrue
<1> QED BY <1>1, SearchInit, SearchInductive, Invariant, PTL DEF Spec

-----------------------------------------------------------------------------
\* What cleanenv allocates for its preserved values, it writes.
LEMMA NewBlockFits ==
  ASSUME NEW set \in SUBSET Preserved, NEW value \in [set -> ValueLengths]
  PROVE  /\ NewSize(value) = RestrictedBytes + PreservedBytes(value)
                               + ArraySize(value) * PointerSize
         /\ Cardinality(Restricted) + Cardinality(set) = ArraySize(value) - 1
<1>1. \A n \in set : Length[n] \in Nat /\ value[n] \in Nat
  BY StartUpAssumption
<1>2. [n \in DOMAIN value |-> Length[n] + value[n] + 2]
        = [n \in DOMAIN value |-> Length[n] + 1 + (value[n] + 1)]
  BY <1>1
<1>3. PreservedSize(value) = PreservedBytes(value) /\ RestrictedSize = RestrictedBytes
  BY <1>2 DEF PreservedSize, PreservedBytes, RestrictedSize, RestrictedBytes
<1>4. Cardinality(Restricted) \in Nat /\ Cardinality(set) \in Nat
  BY StartUpAssumption, FS_Subset, FS_CardinalityType
<1>5. DOMAIN value = set
  OBVIOUS
<1> QED BY <1>3, <1>4, <1>5 DEF NewSize, ArraySize

\* Only cleanenv sets the block of the environment.
LEMMA BlockStep ==
  ASSUME [Next]_vars
  PROVE  block' = block \/ CleanEnv
<1>1. CASE Alloc \/ CloseFiles \/ UInit \/ Names \/ InitLocale \/ InitIo
  BY <1>1 DEF Alloc, CloseFiles, UInit, Names, InitLocale, InitIo, Exits, Dies, Aborts,
              Owns, Sets, Stays
<1>2. ASSUME NEW name \in DOMAIN StdAt, CheckStd(name) PROVE block' = block
  BY <1>2 DEF CheckStd, OpenDevnull, Aborts, Stays
<1>3. CASE InitPrimaryResource \/ InitErrmsg \/ NewState \/ InitConfig
  BY <1>3 DEF InitPrimaryResource, InitErrmsg, NewState, InitConfig, Exits, Dies, Owns,
              Sets, Stays
<1>4. CASE LoadHome \/ LoadDir \/ LoadDefaults
  BY <1>4 DEF LoadHome, LoadDir, Reads, LoadDefaults, Exits, Dies, Stays
<1>5. CASE OpenNodeQueue \/ InitRegexpData \/ AtExit \/ Quit \/ CloseOly
  BY <1>5 DEF OpenNodeQueue, InitRegexpData, AtExit, Quit, CloseOly, Exits, Dies, Owns,
              Sets, Stays
<1>6. CASE UNCHANGED vars
  BY <1>6 DEF vars
<1> QED BY <1>1, <1>2, <1>3, <1>4, <1>5, <1>6 DEF Next

\* Whatever names are preserved and restricted and however long they and their values
\* are, cleanenv writes exactly the bytes it allocated, and one pointer less.
THEOREM EnvironmentAlwaysFits == Spec => []EnvironmentFits
<1>1. Init => EnvironmentFits
  BY DEF Init, EnvironmentFits, Nothing
<1>2. EnvironmentFits /\ [Next]_vars => EnvironmentFits'
  <2> SUFFICES ASSUME EnvironmentFits, [Next]_vars PROVE EnvironmentFits'
    OBVIOUS
  <2>1. CASE block' = block
    BY <2>1 DEF EnvironmentFits
  <2>2. ASSUME NEW set \in SUBSET Preserved, NEW value \in [set -> ValueLengths],
               block' = [allocated |-> NewSize(value),
                         written |-> RestrictedBytes + PreservedBytes(value)
                                       + ArraySize(value) * PointerSize,
                         array |-> ArraySize(value),
                         pointers |-> Cardinality(Restricted) + Cardinality(set)]
        PROVE  EnvironmentFits'
    <3>1. block'.written = block'.allocated /\ block'.pointers = block'.array - 1
      BY <2>2, NewBlockFits
    <3> QED BY <3>1 DEF EnvironmentFits
  <2>3. CASE CleanEnv
    BY <2>1, <2>2, <2>3 DEF CleanEnv, Exits, Aborts, Stays
  <2> QED BY <2>1, <2>3, BlockStep
<1> QED BY <1>1, <1>2, PTL DEF Spec
=============================================================================
