------------------------------ MODULE StartUp ------------------------------
(***************************************************************************)
(* init_oly and close_oly of core/init_oly.c with load_main_config of      *)
(* core/config.c, init_errmsg of core/get_errmsg.c and init_regexp_data of *)
(* node/tag.c.  pc is the call that init_oly makes next; every call may    *)
(* fail, each in the way the code lets it.  A failure ends in an exit,     *)
(* which runs the exit handlers, or in an abort, which does not.  The      *)
(* values of the configuration are left out: the code drops them.          *)
(***************************************************************************)
EXTENDS Naturals, FiniteSets, FiniteSetsExt, Functions

CONSTANTS
  MaxFd,     \* bound: the highest descriptor
  Dirs,      \* directories of SYSCONFDIR
  Preserved, Restricted,  \* names in spc_preserve_environ, spc_restricted_environ
  Length,    \* of a preserved name, and of a restricted name with its value
  ValueLengths  \* of the preserved values

ASSUME StartUpAssumption ==
  /\ MaxFd \in Nat /\ MaxFd >= 3 /\ Dirs \in Nat
  /\ IsFiniteSet(Preserved) /\ IsFiniteSet(Restricted)
  /\ Preserved \cap Restricted = {}
  /\ Length \in [Preserved \cup Restricted -> Nat]
  /\ ValueLengths \subseteq Nat

VARIABLES
  pc,
  limit,      \* RLIMIT_NOFILE: no descriptor from here on can be opened
  fd,         \* who opened a descriptor
  block,      \* of the new environment: bytes and pointers allocated and written
  memory,     \* what the fields of oly own
  streams,    \* of u_stderr, u_stdout, u_stdin those that are open
  static,     \* of message_data, config_data and simple_regexp those that are set
  handlers,   \* is close_oly registered?
  files,      \* the configuration files, 0 in the home directory
  libyaml,    \* does its initialisation always succeed?
  file_status, file_loaded, dir,  \* locals of load_main_config
  cause,      \* history: what stopped the program, "none" before
  via         \* history: how that was told

outside == <<limit, files, libyaml>>
search == <<file_status, file_loaded, dir>>
end == <<cause, via>>
vars == <<pc, outside, fd, block, memory, streams, static, handlers, search, end>>

Fds == 0 .. MaxFd
Std == 0 .. 2
Streams == {"stderr", "stdout", "stdin"}
Owned == {"program_name", "resource_dir", "data", "resource", "state", "node_queue"}
Nothing == [allocated |-> 0, written |-> 0, array |-> 0, pointers |-> 0]

Init ==
  /\ pc = "alloc"
  /\ limit \in 3 .. MaxFd + 1
  /\ fd \in [Fds -> {"closed", "caller"}]
  /\ block = Nothing
  /\ memory = [f \in Owned |-> "null"]
  /\ streams = {}
  /\ static = {}
  /\ handlers = FALSE
  /\ files \in [0 .. Dirs -> {"none", "good", "broken"}]
  /\ libyaml \in BOOLEAN
  /\ file_status = "OKAY" /\ file_loaded = FALSE /\ dir = 0
  /\ cause = "none" /\ via = "none"

-----------------------------------------------------------------------------
(* How a step ends.                                                        *)

Goes(from, to) == pc = from /\ pc' = to /\ UNCHANGED end

Ends(from, why, how) ==
  /\ pc = from
  /\ pc' = IF how # "abort" /\ handlers THEN "close" ELSE "end"
  /\ cause' = why /\ via' = how

\* What stays as it is when a call fails.
Stays == UNCHANGED <<outside, fd, block, memory, streams, static, handlers, search>>

\* printf and exit; before the messages are there nothing else is possible.
Exits(from, why) == Ends(from, why, "text") /\ Stays
\* HANDLE_STATUS_AND_DIE, or omalloc out of memory: the message of the status.
Dies(from, why) == Ends(from, why, "message") /\ Stays
Aborts(from, why) == Ends(from, why, "abort") /\ Stays

-----------------------------------------------------------------------------
(* clean_io_open *)

\* Mutant: the handler is registered first.
AllocRegistered ==
  /\ Goes("alloc", "close_files")
  /\ handlers' = TRUE
  /\ UNCHANGED <<outside, fd, block, memory, streams, static, search>>

Alloc ==
  \/ Goes("alloc", "close_files") /\ Stays
  \/ Exits("alloc", "memory")

CloseFiles ==
  \/ /\ Goes("close_files", "stdin")
     /\ fd' = [i \in Fds |-> IF i \in 3 .. limit - 1 THEN "closed" ELSE fd[i]]
     /\ UNCHANGED <<outside, block, memory, streams, static, handlers, search>>
  \/ Aborts("close_files", "getrlimit")

Closed == {i \in Fds : fd[i] = "closed" /\ i < limit}
Opens(i, who) == i = Min(Closed) /\ fd' = [fd EXCEPT ![i] = who]

\* Mutant: looks at the last descriptor first.
StdAtReversed == [stdin |-> 2, stdout |-> 1, stderr |-> 0]

StdAt == [stdin |-> 0, stdout |-> 1, stderr |-> 2]
AfterStd == [stdin |-> "stdout", stdout |-> "stderr", stderr |-> "cleanenv"]

\* freopen opens the lowest descriptor that is free, which has to be the one asked
\* for.
OpenDevnull(name) ==
  /\ \E i \in Closed : Opens(i, "devnull")
  /\ IF fd'[StdAt[name]] = "devnull" THEN Goes(name, AfterStd[name])
     ELSE Ends(name, "wrong descriptor", "abort")
  /\ UNCHANGED <<outside, block, memory, streams, static, handlers, search>>

\* Mutant: a closed stream is left closed.
CheckNothing(name) == Goes(name, AfterStd[name]) /\ Stays

CheckStd(name) ==
  LET i == StdAt[name]
  IN \/ fd[i] # "closed" /\ Goes(name, AfterStd[name]) /\ Stays
     \/ fd[i] # "closed" /\ Aborts(name, "fstat")
     \/ fd[i] = "closed" /\ OpenDevnull(name)
     \/ fd[i] = "closed" /\ Aborts(name, "no /dev/null")

-----------------------------------------------------------------------------
(* cleanenv: one allocation holds the pointers and then the strings.       *)

PointerSize == 8

\* Mutant: forgets the `=`.
PreservedSizeShort(value) ==
  SumFunction([n \in DOMAIN value |-> Length[n] + value[n] + 1])

PreservedSize(value) == SumFunction([n \in DOMAIN value |-> Length[n] + value[n] + 2])
RestrictedSize == SumFunction([n \in Restricted |-> Length[n] + 1])

ArraySize(value) == 1 + Cardinality(Restricted) + Cardinality(DOMAIN value)
NewSize(value) == RestrictedSize + PreservedSize(value) + ArraySize(value) * PointerSize

\* memcpy of the name, the `=`, and the value with its terminator.
PreservedBytes(value) ==
  SumFunction([n \in DOMAIN value |-> Length[n] + 1 + (value[n] + 1)])
RestrictedBytes == SumFunction([n \in Restricted |-> Length[n] + 1])

CleanEnv ==
  \/ /\ Goes("cleanenv", "u_init")
     /\ \E set \in SUBSET Preserved : \E value \in [set -> ValueLengths] :
          block' = [allocated |-> NewSize(value),
                    written |-> RestrictedBytes + PreservedBytes(value)
                                  + ArraySize(value) * PointerSize,
                    array |-> ArraySize(value),
                    pointers |-> Cardinality(Restricted) + Cardinality(set)]
     /\ UNCHANGED <<outside, fd, memory, streams, static, handlers, search>>
  \/ Exits("cleanenv", "memory")
  \/ Aborts("cleanenv", "no password entry")

-----------------------------------------------------------------------------
(* ICU, names, streams, resources and messages.                            *)

Owns(what) ==
  /\ memory' = [f \in Owned |-> IF f \in what THEN "live" ELSE memory[f]]
  /\ UNCHANGED <<outside, fd, block, streams, static, handlers, search>>

\* Sets a static variable.
Sets(variable) ==
  /\ static' = static \cup {variable}
  /\ UNCHANGED <<outside, fd, block, memory, streams, handlers, search>>

UInit ==
  \/ Goes("u_init", "names") /\ Stays
  \/ Exits("u_init", "ICU")

Names ==
  \/ Goes("names", "locale") /\ Owns({"program_name", "resource_dir"})
  \/ Exits("names", "memory")

InitLocale ==
  \/ Goes("locale", "io") /\ Stays
  \/ Exits("locale", "locale") \/ Exits("locale", "encoding")

InitIo ==
  \/ IF streams = {}
     THEN /\ Goes("io", "resource")
          /\ streams' = Streams
          /\ UNCHANGED <<outside, fd, block, memory, static, handlers, search>>
     ELSE Aborts("io", "assertion")
  \/ streams = {} /\ Exits("io", "streams")

\* A resource that cannot be opened is printed, not returned.
InitPrimaryResource ==
  \/ Goes("resource", "messages") /\ Owns({"data", "resource"})
  \/ Goes("resource", "messages") /\ Owns({"data"})
  \/ Exits("resource", "memory")

\* A table of the resource; none without a resource.
HasTables == memory["resource"] = "live"

\* Mutant: the table is not kept.
NoErrmsg == Goes("messages", "state") /\ Stays

InitErrmsg ==
  \/ HasTables /\ Goes("messages", "state") /\ Sets("message_data")
  \/ Exits("messages", "no messages")

NewState ==
  \/ Goes("state", "config") /\ Owns({"state"})
  \/ Dies("state", "NOMEM")

-----------------------------------------------------------------------------
(* load_main_config: the file in the home directory, then one in each      *)
(* directory of SYSCONFDIR.  Files that were opened are not closed.        *)

InitConfig ==
  \/ HasTables /\ Goes("config", "home") /\ Sets("config_data")
  \/ Exits("config", "no configuration table")
  \/ Dies("config", "NOMEM")

\* Mutant: a missing file is not forgiven.
StatusKept == file_status

\* From the second file on, a file that was not found is forgotten.
StatusAtToken ==
  IF file_status = "CONFIG_FILE_NOT_FOUND" THEN "OKAY" ELSE file_status

\* load_config_file: OKAY, or LIBYAML_INIT; the caller turns that into NOT_FOUND
\* for the file in the home directory.
Loads(at, status) ==
  \/ /\ status = "OKAY" /\ files[at] = "good"
     /\ file_status' = "OKAY" /\ file_loaded' = TRUE
  \/ /\ status = "OKAY" /\ ~libyaml
     /\ file_status' = IF at = 0 THEN "CONFIG_FILE_NOT_FOUND" ELSE "LIBYAML_INIT"
     /\ UNCHANGED file_loaded
  \/ /\ status # "OKAY"
     /\ file_status' = status /\ UNCHANGED file_loaded

Fopens(at, status) ==
  \/ /\ files[at] # "none" /\ Closed # {}
     /\ \E i \in Closed : Opens(i, "config")
     /\ Loads(at, status)
  \/ /\ files[at] = "none" \/ Closed = {}
     /\ file_status' = "CONFIG_FILE_NOT_FOUND"
     /\ UNCHANGED <<fd, file_loaded>>

NextDir(at) == IF at < Dirs THEN "dir" ELSE "defaults"

Reads(from, at, status) ==
  /\ pc = from
  /\ \/ /\ Goes(from, NextDir(at))
        /\ Fopens(at, status)
        /\ dir' = at
        /\ UNCHANGED <<outside, block, memory, streams, static, handlers>>
     \/ /\ status = "OKAY" /\ files[at] = "broken" /\ Closed # {}
        /\ Exits(from, "parser error")

LoadHome == Reads("home", 0, "OKAY")
LoadDir == Reads("dir", dir + 1, StatusAtToken)

LoadDefaults ==
  \/ file_loaded /\ Goes("defaults", "queue") /\ Stays
  \/ ~file_loaded /\ Dies("defaults", "CONFIG_FILE_NOT_FOUND")

-----------------------------------------------------------------------------
OpenNodeQueue ==
  \/ Goes("queue", "regexps") /\ Owns({"node_queue"})
  \/ Dies("queue", "NOMEM")

InitRegexpData ==
  \/ HasTables /\ Goes("regexps", "atexit") /\ Sets("simple_regexp")
  \/ Exits("regexps", "number format")
  \/ Exits("regexps", "no regular expressions")
  \/ Dies("regexps", "ILLEGAL_TAG")

AtExit ==
  /\ Goes("atexit", "ready")
  /\ handlers' = TRUE
  /\ UNCHANGED <<outside, fd, block, memory, streams, static, search>>

\* The program runs, and returns or dies of a status.
Quit == Exits("ready", "done") \/ Dies("ready", "status")

Frees(what) == [f \in Owned |-> IF f \in what /\ memory[f] # "null" THEN "freed" ELSE memory[f]]

CloseOly ==
  /\ pc = "close" /\ pc' = "end"
  /\ IF memory["data"] = "null"
     THEN cause' = "assertion" /\ via' = "abort" /\ UNCHANGED <<memory, streams>>
     ELSE /\ memory' = Frees({"data", "resource", "program_name", "resource_dir"})
          /\ streams' = streams \ {"stdout", "stdin"}
          /\ UNCHANGED end
  /\ UNCHANGED <<outside, fd, block, static, handlers, search>>

Next ==
  \/ Alloc \/ CloseFiles \/ CleanEnv \/ UInit \/ Names \/ InitLocale \/ InitIo
  \/ \E name \in DOMAIN StdAt : CheckStd(name)
  \/ InitPrimaryResource \/ InitErrmsg \/ NewState
  \/ InitConfig \/ LoadHome \/ LoadDir \/ LoadDefaults
  \/ OpenNodeQueue \/ InitRegexpData \/ AtExit \/ Quit \/ CloseOly

Spec == Init /\ [][Next]_vars

-----------------------------------------------------------------------------
(* Properties. *)

StartUpType ==
  /\ limit \in 3 .. MaxFd + 1
  /\ fd \in [Fds -> {"closed", "caller", "devnull", "config"}]
  /\ DOMAIN block = DOMAIN Nothing
  /\ memory \in [Owned -> {"null", "live", "freed"}]
  /\ streams \subseteq Streams
  /\ static \subseteq {"message_data", "config_data", "simple_regexp"}
  /\ file_status \in {"OKAY", "CONFIG_FILE_NOT_FOUND", "LIBYAML_INIT"}
  /\ dir \in 0 .. Dirs
  /\ handlers => pc \in {"ready", "close", "end"}
  /\ pc \in {"close", "end"} <=> via # "none"

\* The files that init_oly opens never become a standard stream, and none that the
\* caller left open stays below the limit.
FilesApart ==
  pc \in {"config", "home", "dir", "defaults", "ready"} =>
    /\ \A i \in Std : fd[i] \in {"caller", "devnull"}
    /\ \A i \in Fds \ Std : i < limit => fd[i] # "caller"

\* Whoever reports by a message finds the table and the stream there.
MessagesReady ==
  via = "message" => "message_data" \in static /\ "stderr" \in streams

\* An init_oly that returns has set up everything, from at least one file.
ReadyMeansReady ==
  pc = "ready" =>
    /\ \A f \in Owned : memory[f] = "live"
    /\ streams = Streams
    /\ static = {"message_data", "config_data", "simple_regexp"}
    /\ \E i \in DOMAIN files : files[i] = "good"

\* While libyaml works and a file can be opened, a missing configuration is one
\* that is nowhere.
NotFoundIsTrue ==
  (cause = "CONFIG_FILE_NOT_FOUND" /\ libyaml /\ limit > 3) =>
    \A i \in DOMAIN files : files[i] = "none"

\* The strings of the new environment end where its block ends, and its pointers
\* leave the last one for the end of the list.
EnvironmentFits ==
  /\ block.written = block.allocated
  /\ block # Nothing => block.pointers = block.array - 1

\* freopen always gives the descriptor asked for, the streams are opened once, and
\* close_oly finds what it asserts.
AssertionsHold == cause \notin {"wrong descriptor", "assertion"}
=============================================================================
