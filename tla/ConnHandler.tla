---------------------------- MODULE ConnHandler ----------------------------
(***************************************************************************)
(* The command handlers of conn_handler.c, run by several workers beside   *)
(* the vacuum and the unmap thread.  A line is the sequence of its words,  *)
(* split at single spaces, so that two spaces in a row or one at the end   *)
(* make an empty word.  A handler is atomic up to its calls of the filter  *)
(* manager: one that makes several (multi, bulk, list, flush of all) takes *)
(* a step for each.  The filter manager is taken by its contract: a call   *)
(* sees the filters that are active at that moment.                        *)
(***************************************************************************)
EXTENDS Integers, FiniteSets, SequencesExt

CONSTANTS
  Conns,          \* connections, each on a worker of its own
  Names,          \* names that VALID_FILTER_NAMES_RE accepts
  Clients,        \* what clients may send: set of [Conns -> set of lines]
  MULTI_OP_SIZE,
  Matching,       \* [prefix -> SUBSET Names]: strncmp in list
  Colliding,      \* keys that may be found although they were not set
  MaxErrors,      \* bound: calls that fail with an internal error
  NULL

ASSUME HandlerAssumption ==
  /\ MULTI_OP_SIZE \in Nat \ {0} /\ MaxErrors \in Nat
  /\ \A f \in Clients : \A c \in Conns : <<>> \notin f[c]
  /\ "" \notin Names

VARIABLES
  lines,          \* the lines of each connection's client
  status,         \* [Names -> "absent", "active" or what the vacuum will do]
  contents,       \* [Names -> keys set in the filter]
  proxied,        \* names of the filters not in memory
  memory,         \* names of the filters in memory only
  disk,           \* names that have a folder
  custom,         \* [Names -> the wrapper's own configuration or NULL]
  allocated,      \* number of configurations that are allocated
  errors

registry == <<status, contents, proxied, memory, disk, custom, allocated,
              errors>>

VARIABLES
  pc, cmd, args,  \* the handler, conn_cmd_type, the words after the command
  rest,           \* words not scanned yet; names of the list not visited yet
  bufs,           \* key_buf of a chunk, output_bufs of list
  out,            \* the buffers sent for this command, in order
  flushed         \* history: filters flushed by this command

handler == <<pc, cmd, args, rest, bufs, out, flushed>>

VARIABLES
  held, missed,   \* keys the filter has had, has lacked, during the command
  ever, always    \* filters active at some moment, at every moment of it

history == <<held, missed, ever, always>>
vars == <<lines, registry, handler, history>>

-----------------------------------------------------------------------------
(* Replies.                                                                *)
handle_client_err(msg) == <<"Client Error: ", msg, "\n">>
handle_client_resp(msg) == <<msg>>
INTERNAL_ERROR == <<"Internal Error\n">>
FILT_NOT_EXIST == "Filter does not exist\n"
BAD_ARGS == handle_client_err("Bad arguments")

Answer(r, last) == IF r = 1 THEN IF last THEN "Yes\n" ELSE "Yes "
                   ELSE IF last THEN "No\n" ELSE "No "

handle_multi_response(res, results, end_of_input) ==
  IF res = -1 THEN handle_client_resp(FILT_NOT_EXIST)
  ELSE IF res # 0 THEN INTERNAL_ERROR
  ELSE [i \in 1..Len(results) |->
          Answer(results[i], end_of_input /\ i = Len(results))]

(* The command of a line.                                                  *)
determine_client_command(word) ==
  CASE word \in {"c", "check"} -> "CHECK"
    [] word \in {"m", "multi"} -> "CHECK_MULTI"
    [] word \in {"s", "set"}   -> "SET"
    [] word \in {"b", "bulk"}  -> "SET_MULTI"
    [] word = "list"   -> "LIST"
    [] word = "info"   -> "INFO"
    [] word = "create" -> "CREATE"
    [] word = "drop"   -> "DROP"
    [] word = "close"  -> "CLOSE"
    [] word = "clear"  -> "CLEAR"
    [] word = "flush"  -> "FLUSH"
    [] OTHER -> "UNKNOWN"

-----------------------------------------------------------------------------
(* The options of create.                                                  *)
Options == {"capacity", "prob", "in_memory"}

(* The values sscanf converts: a number, and for prob in ten-thousandths. *)
Converted ==
  [capacity  |-> [w \in {"capacity=10001", "capacity=10000"} |->
                    IF w = "capacity=10001" THEN 10001 ELSE 10000],
   prob      |-> [w \in {"prob=0.01", "prob=0.1", "prob=0"} |->
                    CASE w = "prob=0.01" -> 100 [] w = "prob=0.1" -> 1000
                      [] OTHER -> 0],
   in_memory |-> [w \in {"in_memory=1", "in_memory=2"} |->
                    IF w = "in_memory=1" THEN 1 ELSE 2]]

(* Words that end before the value: sscanf returns EOF, which is -1.       *)
TooShort == [capacity  |-> {"", "capacity", "capacity="},
             prob      |-> {"", "prob", "prob="},
             in_memory |-> {"", "in_memory", "in_memory="}]

sscanf(param, o) == IF param \in DOMAIN Converted[o] THEN 1
                    ELSE IF param \in TooShort[o] THEN -1 ELSE 0

DefaultConfig == [capacity |-> 100000, prob |-> 1, in_memory |-> 0]

sane_initial_capacity(c) == c > 10000
sane_default_probability(p) == p > 0 /\ p < 1000
sane_in_memory(m) == m \in {0, 1}

Sane(config) == /\ sane_initial_capacity(config.capacity)
                /\ sane_default_probability(config.prob)
                /\ sane_in_memory(config.in_memory)

(* One round of the loop over the options: a word that matches none of     *)
(* them ends it.                                                           *)
ParseOption(parsed, param) ==
  IF parsed.err THEN parsed
  ELSE [config |-> [o \in Options |-> IF sscanf(param, o) = 1
                                      THEN Converted[o][param]
                                      ELSE parsed.config[o]],
        err |-> \A o \in Options : sscanf(param, o) = 0]

Parse(params) ==
  FoldLeft(ParseOption, [config |-> DefaultConfig, err |-> FALSE], params)

-----------------------------------------------------------------------------
Init ==
  /\ lines \in Clients
  /\ status = [n \in Names |-> "absent"]
  /\ contents = [n \in Names |-> {}]
  /\ proxied = {} /\ memory = {} /\ disk = {}
  /\ custom = [n \in Names |-> NULL] /\ allocated = 0 /\ errors = 0
  /\ pc = [c \in Conns |-> "idle"] /\ cmd = [c \in Conns |-> "UNKNOWN"]
  /\ args = [c \in Conns |-> <<>>] /\ rest = [c \in Conns |-> <<>>]
  /\ bufs = [c \in Conns |-> <<>>] /\ out = [c \in Conns |-> <<>>]
  /\ held = [c \in Conns |-> {}] /\ missed = [c \in Conns |-> {}]
  /\ ever = [c \in Conns |-> {}] /\ always = [c \in Conns |-> {}]
  /\ flushed = [c \in Conns |-> {}]

Active(n) == n \in Names /\ status[n] = "active"
At(c, label) == pc[c] = label
Goto(c, label) == pc' = [pc EXCEPT ![c] = label]
Send(c, msg) == out' = [out EXCEPT ![c] = @ \o msg]
Reply(c, msg) == Send(c, msg) /\ Goto(c, "done")
Same == UNCHANGED <<cmd, args, rest, bufs, flushed>>

(* extract_to_terminator and determine_client_command.  arg_buf is NULL    *)
(* when the line has no space: args is then empty.                         *)
Receive(c) ==
  /\ At(c, "idle")
  /\ \E l \in lines[c] :
        /\ cmd' = [cmd EXCEPT ![c] = determine_client_command(Head(l))]
        /\ args' = [args EXCEPT ![c] = Tail(l)]
  /\ Goto(c, "handle")
  /\ UNCHANGED <<registry, rest, bufs, out, flushed>>

(* The next iteration of the loop in handle_client_connect.                *)
Finish(c) ==
  /\ At(c, "done") /\ Goto(c, "idle")
  /\ cmd' = [cmd EXCEPT ![c] = "UNKNOWN"] /\ args' = [args EXCEPT ![c] = <<>>]
  /\ rest' = [rest EXCEPT ![c] = <<>>] /\ bufs' = [bufs EXCEPT ![c] = <<>>]
  /\ out' = [out EXCEPT ![c] = <<>>] /\ flushed' = [flushed EXCEPT ![c] = {}]
  /\ UNCHANGED registry

HandleUnknown(c) ==
  /\ At(c, "handle") /\ cmd[c] = "UNKNOWN"
  /\ Reply(c, handle_client_err("Command not supported"))
  /\ Same /\ UNCHANGED registry

-----------------------------------------------------------------------------
(* Keys.  A key is a sequence of words: check and set take all that        *)
(* follows the name as one.                                                *)

(* buffer_after_terminator finds no space, or nothing after it.            *)
NoKey(c) == Len(args[c]) <= 1 \/ Tail(args[c]) = <<"">>

KeyNeeded(c) ==
  /\ At(c, "handle") /\ cmd[c] \in {"CHECK", "SET", "CHECK_MULTI", "SET_MULTI"}
  /\ NoKey(c)
  /\ Reply(c, handle_client_err("Must provide filter name and key"))
  /\ Same /\ UNCHANGED registry

Sets(c) == cmd[c] \in {"SET", "SET_MULTI"}

(* What bloomf_contains and bloomf_add may return: an absent key may be    *)
(* taken for a present one, never the other way round.                     *)
Possible(c, keys, results) ==
  \A i \in 1..Len(keys) :
    LET before == contents[args[c][1]]
                    \cup IF Sets(c) THEN {keys[j] : j \in 1..(i - 1)} ELSE {}
        found  == IF Sets(c) THEN 0 ELSE 1
    IN  \/ results[i] = found /\ keys[i] \in before \cup Colliding
        \/ results[i] = 1 - found /\ keys[i] \notin before

\* Slip: the last key is left out.
ApplySlip(c, keys, n) ==
  /\ contents' = IF Sets(c)
                 THEN [contents EXCEPT ![args[c][1]] =
                         @ \cup {keys[j] : j \in 1..(n - 1)}]
                 ELSE contents
  /\ UNCHANGED <<status, proxied, memory, disk, custom, allocated>>

(* filtmgr_check_keys or filtmgr_set_keys for the first n of the keys.     *)
Apply(c, keys, n) ==
  /\ contents' = IF Sets(c)
                 THEN [contents EXCEPT ![args[c][1]] =
                         @ \cup {keys[j] : j \in 1..n}]
                 ELSE contents
  /\ proxied' = IF n > 0 THEN proxied \ {args[c][1]} ELSE proxied
  /\ UNCHANGED <<status, memory, disk, custom, allocated>>

(* The call and its response; more: there is another chunk.                *)
CallKeys(c, keys, more) ==
  \/ /\ ~Active(args[c][1])
     /\ Reply(c, handle_multi_response(-1, <<>>, ~more))
     /\ UNCHANGED <<registry, rest, bufs>>
  \/ /\ Active(args[c][1]) /\ errors < MaxErrors
     /\ errors' = errors + 1
     /\ \E n \in 0..(Len(keys) - 1) : Apply(c, keys, n)
     /\ Reply(c, handle_multi_response(-2, <<>>, ~more))
     /\ UNCHANGED <<rest, bufs>>
  \/ /\ Active(args[c][1])
     /\ \E results \in [1..Len(keys) -> {0, 1}] :
           /\ Possible(c, keys, results)
           /\ Send(c, handle_multi_response(0, results, ~more))
     /\ Apply(c, keys, Len(keys))
     /\ Goto(c, IF more THEN "scan" ELSE "done")
     /\ bufs' = [bufs EXCEPT ![c] = <<>>]
     /\ UNCHANGED <<rest, errors>>

(* handle_filt_key_cmd.                                                    *)
HandleKey(c) ==
  /\ At(c, "handle") /\ cmd[c] \in {"CHECK", "SET"} /\ ~NoKey(c)
  /\ CallKeys(c, <<Tail(args[c])>>, FALSE)
  /\ UNCHANGED <<cmd, args, flushed>>

(* handle_filt_multi_key_cmd, up to its loop.                              *)
HandleMulti(c) ==
  /\ At(c, "handle") /\ cmd[c] \in {"CHECK_MULTI", "SET_MULTI"} /\ ~NoKey(c)
  /\ rest' = [rest EXCEPT ![c] = Tail(args[c])]
  /\ Goto(c, "scan")
  /\ UNCHANGED <<registry, cmd, args, bufs, out, flushed>>

\* Slip: a space at the end of the line is not looked for.
HAS_ANOTHER_KEYSlip(words) == words # <<>>

HAS_ANOTHER_KEY(words) == words \notin {<<>>, <<"">>}

ScanKey(c) ==
  /\ At(c, "scan") /\ HAS_ANOTHER_KEY(rest[c])
  /\ bufs' = [bufs EXCEPT ![c] = Append(@, <<Head(rest[c])>>)]
  /\ rest' = [rest EXCEPT ![c] = Tail(@)]
  /\ Goto(c, IF Len(bufs[c]) + 1 = MULTI_OP_SIZE THEN "full" ELSE "scan")
  /\ UNCHANGED <<registry, cmd, args, out, flushed>>

Chunk(c) ==
  /\ At(c, "full")
  /\ CallKeys(c, bufs[c], HAS_ANOTHER_KEY(rest[c]))
  /\ UNCHANGED <<cmd, args, flushed>>

(* The end of the loop, and the remaining keys.  After a full chunk that   *)
(* was the last, index is 0.                                               *)
LastChunk(c) ==
  /\ At(c, "scan") /\ ~HAS_ANOTHER_KEY(rest[c]) /\ bufs[c] # <<>>
  /\ CallKeys(c, bufs[c], FALSE)
  /\ UNCHANGED <<cmd, args, flushed>>

-----------------------------------------------------------------------------
(* create.                                                                 *)
\* Slip: the configuration is not freed when the filter exists.
LeftSlip(res, own) == IF own /\ res \in {0, -1} THEN 1 ELSE 0

(* Configurations left allocated after the switch on the result.           *)
Left(res, own) == IF own /\ res = 0 THEN 1 ELSE 0

(* filtmgr_create_filter and the switch on its result.  A folder that      *)
(* clear has left behind brings its keys and its config.ini with it.       *)
CreateFilter(c, n, own, config) ==
  \/ /\ status[n] = "active"
     /\ Reply(c, handle_client_resp("Exists\n"))
     /\ allocated' = allocated + Left(-1, own)
     /\ UNCHANGED <<status, contents, proxied, memory, disk, custom, errors>>
  \/ /\ status[n] \in {"deleting", "clearing"}
     /\ Reply(c, handle_client_resp("Delete in progress\n"))
     /\ allocated' = allocated + Left(-3, own)
     /\ UNCHANGED <<status, contents, proxied, memory, disk, custom, errors>>
  \/ /\ status[n] = "absent" /\ errors < MaxErrors
     /\ errors' = errors + 1
     /\ Reply(c, INTERNAL_ERROR)
     /\ disk' \in {disk, disk \cup {n}}
     /\ allocated' = allocated + Left(-2, own)
     /\ UNCHANGED <<status, contents, proxied, memory, custom>>
  \/ /\ status[n] = "absent"
     /\ status' = [status EXCEPT ![n] = "active"]
     /\ proxied' = proxied \ {n} /\ disk' = disk \cup {n}
     /\ memory' = IF config.in_memory = 1 /\ n \notin disk
                  THEN memory \cup {n} ELSE memory \ {n}
     /\ custom' = [custom EXCEPT ![n] = IF own THEN config ELSE NULL]
     /\ allocated' = allocated + Left(0, own)
     /\ Reply(c, handle_client_resp("Done\n"))
     /\ UNCHANGED <<contents, errors>>

(* handle_create_cmd.  A word that is no option and values that are not    *)
(* sane are reported one after the other.                                  *)
HandleCreate(c) ==
  /\ At(c, "handle") /\ cmd[c] = "CREATE"
  /\ LET a      == args[c]
         own    == Len(a) > 1
         parsed == Parse(Tail(a))
     IN
     \/ /\ a = <<>>
        /\ Reply(c, handle_client_err("Must provide filter name"))
        /\ UNCHANGED registry
     \/ /\ a # <<>> /\ a[1] \notin Names
        /\ Reply(c, handle_client_err("Bad filter name"))
        /\ UNCHANGED registry
     \/ /\ a # <<>> /\ a[1] \in Names
        /\ own /\ (parsed.err \/ ~Sane(parsed.config))
        /\ Reply(c, (IF parsed.err THEN BAD_ARGS ELSE <<>>) \o
                    (IF Sane(parsed.config) THEN <<>> ELSE BAD_ARGS))
        /\ UNCHANGED registry
     \/ /\ a # <<>> /\ a[1] \in Names
        /\ own => ~parsed.err /\ Sane(parsed.config)
        /\ CreateFilter(c, a[1], own, IF own THEN parsed.config
                                      ELSE DefaultConfig)
  /\ Same

-----------------------------------------------------------------------------
(* The commands that take just a name.                                     *)
NameCommand(c) == \/ cmd[c] \in {"DROP", "CLOSE", "CLEAR", "INFO"}
                  \/ (cmd[c] = "FLUSH" /\ args[c] # <<>>)

BadName(c) ==
  /\ At(c, "handle") /\ NameCommand(c) /\ Len(args[c]) # 1
  /\ Reply(c, handle_client_err(IF args[c] = <<>>
                                THEN "Must provide filter name"
                                ELSE "Unexpected arguments"))
  /\ Same /\ UNCHANGED registry

NotExist(c) ==
  /\ At(c, "handle") /\ NameCommand(c) /\ Len(args[c]) = 1
  /\ ~Active(args[c][1])
  /\ Reply(c, handle_client_resp(FILT_NOT_EXIST))
  /\ Same /\ UNCHANGED registry

(* handle_filt_cmd with the function of the filter manager.                *)
HandleName(c) ==
  /\ At(c, "handle") /\ NameCommand(c) /\ Len(args[c]) = 1
  /\ Active(args[c][1])
  /\ LET n == args[c][1] IN
     \/ /\ cmd[c] = "DROP"
        /\ status' = [status EXCEPT ![n] = "deleting"]
        /\ Reply(c, handle_client_resp("Done\n"))
        /\ UNCHANGED proxied
     \/ /\ cmd[c] = "CLEAR" /\ n \notin proxied
        /\ Reply(c, handle_client_resp("Filter is not proxied. Close it first.\n"))
        /\ UNCHANGED <<status, proxied>>
     \/ /\ cmd[c] = "CLEAR" /\ n \in proxied
        /\ status' = [status EXCEPT ![n] = "clearing"]
        /\ Reply(c, handle_client_resp("Done\n"))
        /\ UNCHANGED proxied
     \/ /\ cmd[c] = "CLOSE"
        /\ proxied' = IF n \in memory THEN proxied ELSE proxied \cup {n}
        /\ Reply(c, handle_client_resp("Done\n"))
        /\ UNCHANGED status
     \/ /\ cmd[c] = "FLUSH"
        /\ Reply(c, handle_client_resp("Done\n"))
        /\ UNCHANGED <<status, proxied>>
     \/ /\ cmd[c] = "INFO"
        /\ Reply(c, <<"START\n", n, "END\n">>)
        /\ UNCHANGED <<status, proxied>>
  /\ Same /\ UNCHANGED <<contents, memory, disk, custom, allocated, errors>>

-----------------------------------------------------------------------------
(* The commands that visit several filters: they list the names and then   *)
(* call the filter manager for each, some of which may be gone by then.    *)
ActiveNames == {n \in Names : status[n] = "active"}

Orders(S) == {s \in [1..Cardinality(S) -> S] : \A n \in S : n \in Range(s)}

(* handle_list_cmd and the flush of all, up to filtmgr_list_filters.       *)
ListFilters(c) ==
  /\ At(c, "handle")
  /\ \/ cmd[c] = "LIST" /\ Goto(c, "lines")
     \/ cmd[c] = "FLUSH" /\ args[c] = <<>> /\ Goto(c, "flush")
  /\ \E names \in Orders(IF args[c] = <<>> THEN ActiveNames
                         ELSE ActiveNames \cap Matching[args[c]]) :
        rest' = [rest EXCEPT ![c] = names]
  /\ UNCHANGED <<registry, cmd, args, bufs, out, flushed>>

\* Slip: the first filter that is gone ends the list.
ListNextSlip(c) ==
  /\ At(c, "lines") /\ rest[c] # <<>>
  /\ bufs' = [bufs EXCEPT ![c] = IF Active(Head(rest[c]))
                                 THEN Append(@, Head(rest[c])) ELSE @]
  /\ rest' = [rest EXCEPT ![c] = IF Active(Head(rest[c]))
                                 THEN Tail(@) ELSE <<>>]
  /\ UNCHANGED <<registry, pc, cmd, args, out, flushed>>

(* filtmgr_filter_cb with list_filter_cb, or skip this output.             *)
ListNext(c) ==
  /\ At(c, "lines") /\ rest[c] # <<>>
  /\ bufs' = [bufs EXCEPT ![c] = IF Active(Head(rest[c]))
                                 THEN Append(@, Head(rest[c])) ELSE @]
  /\ rest' = [rest EXCEPT ![c] = Tail(@)]
  /\ UNCHANGED <<registry, pc, cmd, args, out, flushed>>

ListSend(c) ==
  /\ At(c, "lines") /\ rest[c] = <<>>
  /\ Reply(c, <<"START\n">> \o bufs[c] \o <<"END\n">>)
  /\ Same /\ UNCHANGED registry

(* filtmgr_flush_filter, whose errors are ignored.                         *)
FlushNext(c) ==
  /\ At(c, "flush") /\ rest[c] # <<>>
  /\ flushed' = [flushed EXCEPT ![c] = @ \cup ({Head(rest[c])} \cap ActiveNames)]
  /\ rest' = [rest EXCEPT ![c] = Tail(@)]
  /\ UNCHANGED <<registry, pc, cmd, args, bufs, out>>

FlushDone(c) ==
  /\ At(c, "flush") /\ rest[c] = <<>>
  /\ Reply(c, handle_client_resp("Done\n"))
  /\ Same /\ UNCHANGED registry

-----------------------------------------------------------------------------
(* The other threads.                                                      *)

(* The vacuum gets to delete_filter.                                       *)
DeleteFilter(n) ==
  /\ status[n] \in {"deleting", "clearing"}
  /\ status' = [status EXCEPT ![n] = "absent"]
  /\ IF status[n] = "deleting"
     THEN /\ contents' = [contents EXCEPT ![n] = {}] /\ disk' = disk \ {n}
     ELSE UNCHANGED <<contents, disk>>
  /\ proxied' = proxied \ {n} /\ memory' = memory \ {n}
  /\ custom' = [custom EXCEPT ![n] = NULL]
  /\ allocated' = allocated - (IF custom[n] # NULL THEN 1 ELSE 0)
  /\ UNCHANGED <<errors, handler>>

(* unmap_thread_main: filtmgr_unmap_filter of a cold filter.               *)
UnmapCold(n) ==
  /\ Active(n) /\ n \notin memory
  /\ proxied' = proxied \cup {n}
  /\ UNCHANGED <<status, contents, memory, disk, custom, allocated, errors,
                 handler>>

(* The keys of a line.                                                     *)
KeyCommand(c) == /\ pc[c] # "idle" /\ ~NoKey(c)
                 /\ cmd[c] \in {"CHECK", "SET", "CHECK_MULTI", "SET_MULTI"}
KeyWords(words) == IF Last(words) = "" THEN Front(words) ELSE words
Keys(c) ==
  IF cmd[c] \in {"CHECK", "SET"} THEN <<Tail(args[c])>>
  ELSE [i \in DOMAIN KeyWords(Tail(args[c])) |-> <<Tail(args[c])[i]>>]
Present(c) == IF Active(args[c][1])
              THEN Range(Keys(c)) \cap contents[args[c][1]] ELSE {}
Sweep(c) == /\ pc[c] # "idle"
            /\ \/ cmd[c] = "LIST"
               \/ cmd[c] = "FLUSH" /\ args[c] = <<>>

(* The history of a command, from its line to its last reply.              *)
Observe(c) ==
  IF pc[c] = "done" /\ pc'[c] = "done"
  THEN [held |-> held[c], missed |-> missed[c], ever |-> ever[c],
        always |-> always[c]]
  ELSE [held   |-> IF KeyCommand(c)' THEN held[c] \cup Present(c)' ELSE {},
        missed |-> IF KeyCommand(c)'
                   THEN missed[c] \cup (Range(Keys(c)) \ Present(c))' ELSE {},
        ever   |-> IF Sweep(c)' THEN ever[c] \cup ActiveNames' ELSE {},
        always |-> IF ~Sweep(c)' THEN {}
                   ELSE IF pc[c] = "idle" THEN ActiveNames'
                   ELSE always[c] \cap ActiveNames']

Record == /\ held' = [c \in Conns |-> Observe(c).held]
          /\ missed' = [c \in Conns |-> Observe(c).missed]
          /\ ever' = [c \in Conns |-> Observe(c).ever]
          /\ always' = [c \in Conns |-> Observe(c).always]

Handle(c) ==
  \/ Receive(c) \/ Finish(c) \/ HandleUnknown(c)
  \/ KeyNeeded(c) \/ HandleKey(c) \/ HandleMulti(c) \/ ScanKey(c) \/ Chunk(c)
  \/ LastChunk(c)
  \/ HandleCreate(c) \/ BadName(c) \/ NotExist(c) \/ HandleName(c)
  \/ ListFilters(c) \/ ListNext(c) \/ ListSend(c) \/ FlushNext(c) \/ FlushDone(c)

Next ==
  /\ \/ \E c \in Conns : Handle(c)
     \/ \E n \in Names : DeleteFilter(n) \/ UnmapCold(n)
  /\ Record /\ UNCHANGED lines

Spec == Init /\ [][Next]_vars

-----------------------------------------------------------------------------
Answers(c) == SelectSeq(out[c], LAMBDA b : b \in {"Yes ", "Yes\n", "No ", "No\n"})
Yes(b) == b \in {"Yes ", "Yes\n"}

(* Buffers that end a line.                                                *)
LineEnds == {"Yes\n", "No\n", "\n", "Internal Error\n", FILT_NOT_EXIST,
             "Done\n", "Exists\n", "Delete in progress\n",
             "Filter is not proxied. Close it first.\n"}

(* A create with a word that is no option after a value that is not sane.  *)
TwoErrors(c) ==
  /\ cmd[c] = "CREATE" /\ Len(args[c]) > 1
  /\ Parse(Tail(args[c])).err /\ ~Sane(Parse(Tail(args[c])).config)

(* A client that sends one command after the other can tell the replies    *)
(* apart: each command is answered by one line, ended by its last buffer,  *)
(* however its keys fall into chunks and whatever happens between them, or *)
(* by a block from START to END; only TwoErrors makes two lines.  A reply  *)
(* without an error has one answer for each key.                           *)
OneReply ==
  \A c \in Conns : pc[c] = "done" =>
    \/ TwoErrors(c)
    \/ /\ Head(out[c]) = "START\n" /\ Last(out[c]) = "END\n"
       /\ \A i \in 2..(Len(out[c]) - 1) : out[c][i] \in Names
    \/ /\ \A i \in DOMAIN out[c] : out[c][i] \in LineEnds <=> i = Len(out[c])
       /\ Last(out[c]) \in {"Yes\n", "No\n"} => Len(Answers(c)) = Len(Keys(c))

(* The answers are about the keys, in their order, and true at a moment of *)
(* the command, whatever other connections do between its chunks: no key   *)
(* that check denies was there all the time, a key that set answers for    *)
(* was stored, and one that set calls new had been missing.                *)
AnswersAreTrue ==
  \A c \in Conns : KeyCommand(c) => \A i \in DOMAIN Answers(c) :
    LET k == Keys(c)[i]
        a == Answers(c)[i]
    IN  IF Sets(c) THEN k \in held[c] /\ (Yes(a) => k \in missed[c])
        ELSE ~Yes(a) => k \in missed[c]

(* Commands that visit several filters are fair to those that stay and     *)
(* truthful about those that come and go meanwhile: a list holds every     *)
(* matching filter that was active throughout, none that was not active at *)
(* some moment, and none twice; a flush of all ("ignore errors since       *)
(* filters might get deleted in the process") has flushed every filter     *)
(* that was active throughout when it says Done.                           *)
SweepsAreHonest ==
  \A c \in Conns : pc[c] = "done" /\ Sweep(c) =>
    IF cmd[c] = "FLUSH" THEN always[c] \subseteq flushed[c]
    ELSE LET listed == Tail(Front(out[c]))
             asked  == IF args[c] = <<>> THEN Names ELSE Matching[args[c]]
         IN  /\ always[c] \cap asked \subseteq Range(listed)
             /\ Range(listed) \subseteq ever[c] \cap asked
             /\ IsInjective(listed)

(* Every configuration that create has allocated belongs to the filter it  *)
(* made, and no other is left: neither leaked nor freed twice.             *)
ConfigsAreOwned == allocated = Cardinality({n \in Names : custom[n] # NULL})

=============================================================================
