----------------------------- MODULE AgentRuntime -----------------------------
(***************************************************************************)
(* The agent runtime provider: one object shared by all runs, which builds *)
(* its ADK agent and runner on first use, and per run up to Attempts calls *)
(* of the language model, whose text is parsed into a message and intents. *)
(* The module owns the provider's state; RunStream owns the runs.          *)
(***************************************************************************)
EXTENDS Naturals, Sequences

CONSTANTS
    Runs,       \* the runs, POST /runs/stream
    Attempts,   \* _ADK_RUN_ATTEMPTS
    MaxIntents, \* bound on the intents of one answer
    None

ASSUME RuntimeAssumption ==
    /\ Attempts \in Nat \ {0}
    /\ MaxIntents \in Nat

VARIABLES
    provider,  \* the attributes of the GoogleAdkToolIntentProvider
    attempt    \* attempt[r]: the attempt run r is in, 0 outside _run_agent

runtimeVars == <<provider, attempt>>

Provider == [agent : BOOLEAN, runner : BOOLEAN, unavailable : BOOLEAN]
NewProvider == [agent |-> FALSE, runner |-> FALSE, unavailable |-> FALSE]

(* What the model wrote: "object" and "list" are JSON, "broken" has braces   *)
(* around something that is not JSON, "prose" has no braces at all.          *)
Text ==
    [form : {"object", "list", "broken", "prose"}, message : BOOLEAN,
     intents : 0..MaxIntents]

\* AgentRuntimeResult: whether assistant_message is not empty, and the intents.
RuntimeResult == [message : BOOLEAN, intents : 0..MaxIntents]

RuntimeTypeOK ==
    /\ provider \in Provider
    /\ attempt \in [Runs -> 0..Attempts]

RuntimeInit ==
    /\ provider = NewProvider
    /\ attempt = [r \in Runs |-> 0]

------------------------------------------------------------------------------
(* _loads_json_fragment reads prose as {}, and only an object has a message. *)
Parsed(text) ==
    [message |-> text.form = "object" /\ text.message,
     intents |-> IF text.form \in {"object", "list"} THEN text.intents ELSE 0]

(* _ensure_agent: the agent is assigned before the session service and the  *)
(* runner are made, and a failure is remembered for ever.                   *)
CanTry == ~provider.agent /\ ~provider.unavailable

BuildSucceeds ==
    /\ CanTry
    /\ provider' = [agent |-> TRUE, runner |-> TRUE, unavailable |-> FALSE]

BuildFails ==
    /\ CanTry
    /\ \E made \in BOOLEAN :
         provider' = [agent |-> made, runner |-> FALSE, unavailable |-> TRUE]

\* Mutant: the runner is not looked at once the agent exists.
EnterWithAgent(r) ==
    /\ attempt[r] = 0
    /\ \/ BuildSucceeds
       \/ provider.agent /\ UNCHANGED provider
    /\ attempt' = [attempt EXCEPT ![r] = 1]

EnterAttempts(r) ==
    /\ attempt[r] = 0
    /\ \/ BuildSucceeds
       \/ provider.agent /\ provider.runner /\ UNCHANGED provider
    /\ attempt' = [attempt EXCEPT ![r] = 1]

(* run raises: the runtime is unavailable, or its agent has no runner.       *)
RefuseRun(r) ==
    /\ attempt[r] = 0
    /\ \/ BuildFails
       \/ ~provider.runner /\ ~CanTry /\ UNCHANGED provider
    /\ UNCHANGED attempt

\* An attempt raises, returns no text, or its text cannot be parsed.
AttemptFails(r) ==
    /\ attempt[r] \in 1..(Attempts - 1)
    /\ attempt' = [attempt EXCEPT ![r] = @ + 1]
    /\ UNCHANGED provider

LastAttemptFails(r) ==
    /\ attempt[r] = Attempts
    /\ attempt' = [attempt EXCEPT ![r] = 0]
    /\ UNCHANGED provider

AttemptReturns(r, text) ==
    /\ attempt[r] # 0
    /\ text.form # "broken"
    /\ attempt' = [attempt EXCEPT ![r] = 0]
    /\ UNCHANGED provider

\* The task is cancelled inside the attempt, by a timeout or a disconnect.
LeaveRuntime(r) ==
    /\ attempt' = [attempt EXCEPT ![r] = 0]
    /\ UNCHANGED provider

RuntimeIdle == UNCHANGED runtimeVars
==============================================================================
