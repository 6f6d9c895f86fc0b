---------------------------- MODULE PciEmulation ----------------------------
(***************************************************************************)
(* An emulated PCI device (shoc/devemu_pci.cpp): its type, its             *)
(* representor, the device context and the fibers that plug it into the    *)
(* host and out of it.                                                     *)
(*                                                                         *)
(* hotplug() and hotunplug() start a change of the power state, note their *)
(* receptable in hot_plug_waiter_ or hot_unplug_waiter_ and return an      *)
(* awaitable; the callback of the change stores the new state in the       *)
(* receptable.  Nothing takes a receptable out of those pointers, so a     *)
(* device is plugged at most once and unplugged at most once; "plug" and   *)
(* "unplug" name the two calls, their pointers and their receptables.      *)
(***************************************************************************)

VARIABLES
    type,           \* the pci_type: "new", "configured", "started", "stopped"
                    \* or, after its destructor, "destroyed"
    representor,    \* create_representor() was called
    dev,            \* the pci_dev: "none", "running", "idle"
    power,          \* DOCA's hotplug state
    waiter,         \* hot_plug_waiter_, hot_unplug_waiter_ are set
    hasValue,       \* the receptable has a value
    awaiter         \* what the fiber does with the awaitable

vars == <<type, representor, dev, power, waiter, hasValue, awaiter>>
typeVars == <<type, representor, dev>>
waitVars == <<waiter, hasValue, awaiter>>

Calls == {"plug", "unplug"}

Init ==
    /\ type = "new"
    /\ representor = FALSE
    /\ dev = "none"
    /\ power = "off"
    /\ waiter = [k \in Calls |-> FALSE]
    /\ hasValue = [k \in Calls |-> FALSE]
    /\ awaiter = [k \in Calls |-> "none"]

-----------------------------------------------------------------------------
(* The type *)

\* The setters, of which set_dev is required; one that throws has no effect.
Configure ==
    /\ type = "new"
    /\ type' = "configured"
    /\ UNCHANGED <<representor, dev, power, waitVars>>

StartType ==
    /\ type = "configured"
    /\ type' = "started"
    /\ UNCHANGED <<representor, dev, power, waitVars>>

\* stop() does something only to a type that is_started; DOCA refuses it while
\* there is a device.
StopType ==
    /\ type = "started"
    /\ dev # "running"
    /\ type' = "stopped"
    /\ UNCHANGED <<representor, dev, power, waitVars>>

\* The destructor stops the type first, and goes on if DOCA refuses.  A device is
\* made from a type that is declared before it and ends after it.
DestroyType ==
    /\ type # "destroyed"
    /\ dev # "running"
    /\ type' = "destroyed"
    /\ UNCHANGED <<representor, dev, power, waitVars>>

CreateRepresentor ==
    /\ type = "started"
    /\ ~representor
    /\ representor' = TRUE
    /\ UNCHANGED <<type, dev, power, waitVars>>

-----------------------------------------------------------------------------
(* The device *)

\* pci_dev::create, with the hotplug callback registered.
CreateDev ==
    /\ type = "started"
    /\ representor
    /\ dev = "none"
    /\ dev' = "running"
    /\ UNCHANGED <<type, representor, power, waitVars>>

\* The scope of the device ends, which it does not while a fiber waits in it.
StopDev ==
    /\ dev = "running"
    /\ \A k \in Calls : awaiter[k] \notin {"held", "suspended"}
    /\ dev' = "idle"
    /\ UNCHANGED <<type, representor, power, waitVars>>

\* A call that finds its pointer free and DOCA ready; otherwise it throws and
\* nothing has changed.
Call(k, from, to) ==
    /\ dev = "running"
    /\ ~waiter[k]
    /\ power = from
    /\ power' = to
    /\ waiter' = [waiter EXCEPT ![k] = TRUE]
    /\ awaiter' = [awaiter EXCEPT ![k] = "held"]
    /\ UNCHANGED <<typeVars, hasValue>>

Hotplug == Call("plug", "off", "plugging")

Hotunplug == Call("unplug", "on", "unplugging")

\* await_ready, then await_suspend or await_resume.
CoAwait(k) ==
    /\ awaiter[k] = "held"
    /\ awaiter' = [awaiter EXCEPT ![k] = IF hasValue[k] THEN "resumed" ELSE "suspended"]
    /\ UNCHANGED <<typeVars, power, waiter, hasValue>>

\* hotplug_state_changed_callback in the new state: set_value, and no resume().
StateChanged(k, from, to) ==
    /\ dev = "running"
    /\ power = from
    /\ power' = to
    /\ hasValue' = [hasValue EXCEPT ![k] = @ \/ waiter[k]]
    /\ UNCHANGED <<typeVars, waiter, awaiter>>

\* The host's side completes the change.
PowerOn == StateChanged("plug", "plugging", "on")

PowerOff == StateChanged("unplug", "unplugging", "off")

-----------------------------------------------------------------------------
Next ==
    \/ Configure \/ StartType \/ StopType \/ DestroyType \/ CreateRepresentor
    \/ CreateDev \/ StopDev
    \/ Hotplug \/ Hotunplug \/ PowerOn \/ PowerOff
    \/ \E k \in Calls : CoAwait(k)

\* The host completes what was begun, and a fiber awaits what it has called.
FairSpec ==
    /\ Init /\ [][Next]_vars
    /\ WF_vars(PowerOn) /\ WF_vars(PowerOff)
    /\ \A k \in Calls : WF_vars(CoAwait(k))

-----------------------------------------------------------------------------
\* "Callbacks can supply their results here before resuming the stored
\* coroutine" (value_receptable, value_awaitable.hpp): a fiber that waits for a
\* receptable that has got its value is resumed.
PlugResumes ==
    \A k \in Calls : (hasValue[k] /\ awaiter[k] = "suspended") ~> awaiter[k] = "resumed"
=============================================================================
