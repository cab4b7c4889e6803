---------------------------- MODULE ExampleProgram ----------------------------
(***************************************************************************)
(* The example as a process (src/example/src/main.rs): it carries out one  *)
(* command.  `run` starts a listener and a Subscriber and prints updates   *)
(* (AcceptLoop); `subscribe` and `unsubscribe` are those of Commands.  The *)
(* migrations are applied to its database by diesel's own program.  What a *)
(* behaviour does not use stays as it is.                                  *)
(***************************************************************************)
EXTENDS AcceptLoop, Commands, Migrations

VARIABLES
    program, \* what is carried out
    process  \* of `run`: "starting", "up", "ok" or "error"

example_vars == <<program, process, accept_vars, command_vars, migration_vars>>

ExampleInit ==
    /\ program \in {"run", "command", "migration"}
    /\ process = "starting"
    /\ AcceptInit
    /\ MigrationInit /\ (program # "migration" => ~enforced)
    /\ IF program = "command" THEN CommandsInit
       ELSE /\ command = "subscribe" /\ step = "start"
            /\ opt = [hub |-> Absent, topic |-> Absent, callback |-> TRUE]
            /\ db = EmptyTable /\ draft = db /\ before = db
            /\ topic = Absent /\ todo = <<>> /\ found = {}
            /\ ids = {} /\ tasks = {} /\ failed = FALSE
            /\ asked = {} /\ verifying = {} /\ ended = {}

-----------------------------------------------------------------------------
(* run                                                                     *)

\* The address is given by `bind` or by the callback.  The database, the
\* address, the listener or the construction may fail; then nothing is
\* accepted.
StartRun ==
    /\ program = "run" /\ process = "starting"
    /\ process' \in {"up", "error"}
    /\ UNCHANGED <<program, accept_vars>>

\* print_all has come to the end of the stream, or to an error.
EndRun ==
    /\ program = "run" /\ process = "up"
    /\ ~Open
    /\ process' = IF at = "failed" THEN "error" ELSE "ok"
    /\ UNCHANGED <<program, accept_vars>>

\* A step of the stream, or of what surrounds it.
Up(A) ==
    /\ program = "run" /\ process = "up"
    /\ A
    /\ UNCHANGED <<program, process, command_vars, migration_vars>>

-----------------------------------------------------------------------------
ExampleNext ==
    \/ (StartRun \/ EndRun) /\ UNCHANGED <<command_vars, migration_vars>>
    \/ Up(AcceptNext)
    \/ /\ program = "command" /\ CommandsNext
       /\ UNCHANGED <<program, process, accept_vars, migration_vars>>
    \/ /\ program = "migration" /\ MigrationNext
       /\ UNCHANGED <<program, process, accept_vars, command_vars>>

\* The executor polls a task that was woken, and its timer fires.
ExampleSpec ==
    /\ ExampleInit /\ [][ExampleNext]_example_vars
    /\ WF_example_vars(Up(PollStream)) /\ WF_example_vars(Up(FireSleep))

=============================================================================
