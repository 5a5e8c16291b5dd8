----------------------- MODULE MCConfigurationRuntime -----------------------
(***************************************************************************)
(* Tasks and programs for the instances of ConfigurationRuntime: a fast    *)
(* task of one program and a slow one of two, which share the variable x.  *)
(***************************************************************************)
EXTENDS ConfigurationRuntime, TLC

CONSTANTS fast, slow, f1, s1, s2, x, y

Do(op, var) == [op |-> op, var |-> var]

FastFirst == <<fast, slow>>
TaskMappings == fast :> <<f1>> @@ slow :> <<s1, s2>>
Programs == f1 :> <<Do("store", x), Do("while", x), Do("store", y)>>
            @@ s1 :> <<Do("store", x)>>
            @@ s2 :> <<Do("check", x), Do("store", x)>>
Layouts == f1 :> {x, y} @@ s1 :> {x} @@ s2 :> {x}
Intervals == fast :> 1 @@ slow :> 0
Phases == fast :> 1 @@ slow :> 0
Budgets == fast :> 5 @@ slow :> 6

\* A stop between the programs of the slow task; one inside the program of the
\* fast task, after it has stored.
BetweenPrograms == {<<s2, 1>>}
AfterStore == {<<f1, 2>>}

\* The host calls that concern the slow task.
HostCalls == {"wallclock", "reset", "restart"} \X {slow}
=============================================================================
