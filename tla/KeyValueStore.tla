---------------------------- MODULE KeyValueStore ----------------------------
(***************************************************************************)
(* The interactive key_value_store example (src/examples/key_value_store.rs)*)
(* driving the ExampleClient.  KeyValueStore::new builds the client, then *)
(* starts the "Command reader" thread, which parses stdin lines into      *)
(* UserCommands and sends them on an mpsc channel, returning after Exit.  *)
(* run() drains that channel with try_recv, handling each command, and    *)
(* breaks once exit is set.  A Get calls get_mdata_value and prints what  *)
(* it got; a Put builds a MutableData holding one entry and calls         *)
(* put_mdata.  Keys are hashed to names; the model's keys are the names.  *)
(***************************************************************************)
EXTENDS ExampleClient

CONSTANTS
    MaxCommands    \* bound on the lines the user types

VARIABLES
    commands,   \* Receiver<UserCommand>: typed and not yet taken, FIFO
    typed,      \* lines typed so far
    reader_done,\* read_user_commands has returned (after Exit)
    exit,       \* KeyValueStore.exit
    handling,   \* the command whose client call is in progress
    output,     \* the last line get/put printed or logged
    acked       \* history: the (name, value) pairs of puts that returned Ok

kvs_vars == <<commands, typed, reader_done, exit, handling, output, acked>>
all_vars == <<vars, kvs_vars>>

NoCommand == [cmd |-> "none", name |-> NoValue, val |-> NoValue]
UserCommands ==
    {[cmd |-> "Exit", name |-> NoValue, val |-> NoValue]}
      \cup {[cmd |-> "Get", name |-> n, val |-> NoValue] : n \in Names}
      \cup {[cmd |-> "Put", name |-> n, val |-> v] : n \in Names, v \in Values}

KVSInit ==
    /\ Init
    /\ commands = <<>> /\ typed = 0 /\ reader_done = FALSE /\ exit = FALSE
    /\ handling = NoCommand
    /\ output = [line |-> "none", name |-> NoValue, val |-> NoValue]
    /\ acked = {}

\* read_user_commands: one recognised line becomes a UserCommand on the
\* channel; the thread returns after sending Exit.  Unrecognised lines
\* change nothing and are left out.
ReadUserCommand(c) ==
    /\ phase # "Connecting" /\ ~reader_done /\ typed < MaxCommands
    /\ commands' = Append(commands, c) /\ typed' = typed + 1
    /\ reader_done' = (c.cmd = "Exit")
    /\ UNCHANGED <<vars, exit, handling, output, acked>>

\* run: try_recv one command and handle_user_command it.  Get and Put
\* enter the client's request method, which blocks until it returns.
HandleUserCommand ==
    /\ phase = "Idle" /\ handling = NoCommand /\ ~exit /\ commands # <<>>
    /\ LET c == commands[1] IN
         /\ commands' = Tail(commands)
         /\ \/ c.cmd = "Exit" /\ exit' = TRUE
               /\ UNCHANGED <<vars, handling>>
            \/ c.cmd = "Get" /\ Send("get_mdata_value", c.name, NoValue)
               /\ handling' = c /\ UNCHANGED exit
            \/ c.cmd = "Put" /\ Send("put_mdata", c.name, c.val)
               /\ handling' = c /\ UNCHANGED exit
    /\ UNCHANGED <<typed, reader_done, output, acked>>

\* get: print the value on Ok, the failure otherwise.
GetReturned ==
    /\ phase = "Idle" /\ handling.cmd = "Get"
    /\ output' = IF returned.result = "Ok"
                 THEN [line |-> "Got value", name |-> handling.name, val |-> returned.val]
                 ELSE [line |-> "Failed to get", name |-> handling.name, val |-> NoValue]
    /\ handling' = NoCommand
    /\ UNCHANGED <<vars, commands, typed, reader_done, exit, acked>>

\* A put that logs only the network's refusals and takes a timeout or a
\* wrong message_id for success.
PutReturned_network_err_only ==
    /\ phase = "Idle" /\ handling.cmd = "Put"
    /\ IF returned.result # "Err"
       THEN acked' = acked \cup {[name |-> handling.name, val |-> handling.val]}
            /\ UNCHANGED output
       ELSE output' = [line |-> "Failed to put data", name |-> handling.name, val |-> NoValue]
            /\ UNCHANGED acked
    /\ handling' = NoCommand
    /\ UNCHANGED <<vars, commands, typed, reader_done, exit>>

\* put: log an error unless put_mdata returned Ok.
PutReturned ==
    /\ phase = "Idle" /\ handling.cmd = "Put"
    /\ IF returned.result = "Ok"
       THEN acked' = acked \cup {[name |-> handling.name, val |-> handling.val]}
            /\ UNCHANGED output
       ELSE output' = [line |-> "Failed to put data", name |-> handling.name, val |-> NoValue]
            /\ UNCHANGED acked
    /\ handling' = NoCommand
    /\ UNCHANGED <<vars, commands, typed, reader_done, exit>>

\* The client's receive loop runs inside the blocked handler; no caller
\* other than handle_user_command issues requests.
KVSClient ==
    \/ NewConnected \/ NewRestart \/ NewSkip
    \/ RecvOwn \/ RecvWrongId \/ RecvDisconnect \/ RecvSkip \/ Timeout

KVSNext ==
    \/ (KVSClient \/ Network) /\ UNCHANGED kvs_vars
    \/ \E c \in UserCommands : ReadUserCommand(c)
    \/ HandleUserCommand \/ GetReturned \/ PutReturned

KVSSpec == KVSInit /\ [][KVSNext]_all_vars

-----------------------------------------------------------------------------
\* Read your writes: once a put of value v under a key has returned Ok, a
\* get of that key that prints "Got value" prints v, whatever requests
\* timed out or were answered late in between.
ReadYourWrites ==
    \A a \in acked :
        output.line = "Got value" /\ output.name = a.name => output.val = a.val

=============================================================================
