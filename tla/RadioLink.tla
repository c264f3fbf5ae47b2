----------------------------- MODULE RadioLink -----------------------------
(***************************************************************************)
(* The connection to a Meshtastic module, from the button of the drawer    *)
(* (client/src/views/mapView.ts, toggleMesh) through the Bluetooth of the  *)
(* browser (client/src/mesh/bleRadio.ts, bleRadioImpl.ts) to the transport *)
(* that is attached to it (client/src/transport/index.ts), whose governor  *)
(* is module Governor.  Every await of an attempt is a step of its own.    *)
(***************************************************************************)
EXTENDS Governor

CONSTANTS None,
          Platforms,   \* what the page may run on
          Rejections,  \* how the browser may refuse, as [name, adapter]
          MaxAttempts  \* bound: taps that open an attempt

ASSUME RadioLinkAssumption == None \notin Nat

VARIABLES platform,
          phase,       \* where the attempt in progress awaits, or "idle"
          cause,       \* why it fails, while the link is being closed
          meshError,   \* the last failure, until the next attempt
          line,        \* what the drawer shows
          enabled,     \* the button can be tapped
          mesh,        \* the attempt whose module the transport uses, or None
          links,       \* the attempts whose Bluetooth link is open
          attempt      \* how many attempts were made

link == <<phase, cause, meshError, line, enabled, mesh, links, attempt>>
vars == <<now, governor, platform, link>>

Platform == [ios : BOOLEAN, secure : BOOLEAN, api : BOOLEAN,
             browser : {"firefox", "safari", "chrome"}]

\* bleSupport: the first cause in this order, or None.
BleSupport(p) ==
  CASE p.ios -> "ios"
    [] ~p.ios /\ ~p.secure -> "insecure-context"
    [] ~p.ios /\ p.secure /\ ~p.api ->
         IF p.browser = "chrome" THEN "unsupported" ELSE p.browser
    [] OTHER -> None

\* describeBleFailure; adapter stands for what the text of NotFoundError says.
Described(r) ==
  CASE r.name = "NotFoundError" -> IF r.adapter THEN "adapter-off" ELSE "cancelled"
    [] r.name = "SecurityError" -> "no-gesture"
    [] r.name = "NotAllowedError" -> "denied"
    [] r.name = "NetworkError" -> "link-lost"
    [] r.name \in {"NotSupportedError", "InvalidStateError"} -> "gatt-refused"
    [] OTHER -> "connect-failed"

\* A bug: a render forgets why the last attempt failed.
RenderedBlank(attached, error) ==
  IF attached # None THEN "connected"
  ELSE IF BleSupport(platform) # None THEN BleSupport(platform) ELSE ""

\* renderMesh
Rendered(attached, error) ==
  IF attached # None THEN "connected"
  ELSE IF BleSupport(platform) # None THEN BleSupport(platform)
  ELSE IF error # None THEN error ELSE ""

Init ==
  /\ NewGovernor
  /\ platform \in Platforms
  /\ phase = "idle" /\ cause = None /\ meshError = None
  /\ mesh = None /\ links = {} /\ attempt = 0
  /\ line = Rendered(None, None)
  /\ enabled = (BleSupport(platform) = None)
-----------------------------------------------------------------------------
\* toggleMesh with a module attached: detachMesh.  The radio itself is left
\* as it is: nobody closes its link.
Detach ==
  /\ enabled /\ phase = "idle" /\ mesh # None
  /\ mesh' = None /\ meshError' = None
  /\ line' = Rendered(None, None)
  /\ FreshGovernor
  /\ UNCHANGED <<platform, phase, cause, enabled, links, attempt>>

\* toggleMesh without one: connectBleRadio begins.
Connect ==
  /\ enabled /\ phase = "idle" /\ mesh = None /\ attempt < MaxAttempts
  /\ attempt' = attempt + 1
  /\ enabled' = FALSE /\ meshError' = None /\ line' = "searching"
  /\ phase' = "availability"
  /\ UNCHANGED <<now, governor, platform, cause, mesh, links>>

\* The catch and the finally of toggleMesh.
FailWith(reason) ==
  /\ meshError' = reason
  /\ phase' = "idle" /\ cause' = None
  /\ enabled' = (BleSupport(platform) = None)
  /\ line' = Rendered(None, reason)

Proceed(from, to) == phase = from /\ phase' = to

\* getAvailability, the import of the radio code, the chooser of the browser.
Prepare ==
  /\ \/ /\ \/ Proceed("availability", "loading")
           \/ Proceed("loading", "choosing")
        /\ UNCHANGED <<links, cause, meshError, line, enabled>>
     \/ /\ Proceed("choosing", "configuring")
        /\ links' = links \cup {attempt}
        /\ UNCHANGED <<cause, meshError, line, enabled>>
     \/ /\ \/ phase = "availability" /\ FailWith("adapter-off")
           \/ phase = "loading" /\ FailWith("chunk-failed")
           \/ phase = "choosing" /\ \E r \in Rejections : FailWith(Described(r))
        /\ UNCHANGED links
  /\ UNCHANGED <<now, governor, platform, mesh, attempt>>

\* configure answers: the module is attached to a transport with a governor
\* of its own, empty whatever was sent before.
Configured ==
  /\ phase = "configuring"
  /\ phase' = "idle" /\ mesh' = attempt
  /\ enabled' = TRUE /\ line' = Rendered(attempt, None)
  /\ FreshGovernor
  /\ UNCHANGED <<platform, cause, meshError, links, attempt>>

\* configure rejects: the link has to be closed first.
Refuse ==
  /\ Proceed("configuring", "closing")
  /\ \E r \in Rejections : cause' = Described(r)
  /\ UNCHANGED <<now, governor, platform, meshError, line, enabled, mesh, links, attempt>>

\* A bug that arms no timer.
NoTimeout == FALSE /\ UNCHANGED vars

\* The module says nothing for CONFIGURE_TIMEOUT_MS.
Timeout ==
  /\ Proceed("configuring", "closing")
  /\ cause' = "configure-timeout"
  /\ UNCHANGED <<now, governor, platform, meshError, line, enabled, mesh, links, attempt>>

\* A bug that reports the failure and leaves the link open.
CloseNothing ==
  /\ phase = "closing"
  /\ FailWith(cause)
  /\ UNCHANGED <<links, now, governor, platform, mesh, attempt>>

\* device.disconnect has come back, whether it worked or not.
Close ==
  /\ phase = "closing"
  /\ links' = links \ {attempt}
  /\ FailWith(cause)
  /\ UNCHANGED <<now, governor, platform, mesh, attempt>>

\* A module whose status we listen to, attached or not, changes its status.
StatusEvent ==
  /\ \E a \in links : a # attempt \/ phase = "idle"
  /\ line' = Rendered(mesh, meshError)
  /\ UNCHANGED <<now, governor, platform, phase, cause, meshError, enabled, mesh, links, attempt>>

\* The transport submits a frame; the heartbeat drains; the clock moves.
Transmit ==
  /\ mesh # None
  /\ \E k \in Sends : Submit(k)
  /\ UNCHANGED <<now, lastPositionSent, platform, link>>

Position == mesh # None /\ SendPosition /\ UNCHANGED <<now, platform, link>>

Tick == /\ mesh # None /\ queue # <<>>
        /\ Drain
        /\ UNCHANGED <<now, lastPositionSent, platform, link>>

Pass == /\ mesh # None /\ now < Horizon
        /\ now' = now + 1 /\ emitted' = LastWindow(now + 1)
        /\ UNCHANGED <<sent, queue, lastPositionSent, platform, link>>

Next == \/ Detach \/ Connect \/ Prepare \/ Configured \/ Refuse \/ Timeout \/ Close
        \/ StatusEvent \/ Transmit \/ Position \/ Tick \/ Pass

(***************************************************************************)
(* The browser answers its own calls and the user ends up choosing or      *)
(* closing the chooser; the timer of withTimeout fires.  The module may    *)
(* stay silent for ever: nothing is assumed of configure.                  *)
(***************************************************************************)
Fairness == WF_vars(Prepare) /\ WF_vars(Timeout) /\ WF_vars(Close)

Spec == Init /\ [][Next]_vars /\ Fairness
-----------------------------------------------------------------------------
TypeOK ==
  /\ now \in 0 .. Horizon
  /\ queue \in Seq(Frame) /\ Len(queue) <= MaxQueue /\ OneOfEachKey
  /\ {sent, emitted} \subseteq Seq(Frame)
  /\ phase \in {"idle", "availability", "loading", "choosing", "configuring", "closing"}
  /\ mesh \in {None} \cup 1 .. attempt /\ links \subseteq 1 .. attempt

(***************************************************************************)
(* Types; and the button is dead exactly during an attempt and where       *)
(* Bluetooth cannot work (mapView.ts:1260, 1274), and a failure stays on   *)
(* display until the next tap, whatever makes the drawer render itself     *)
(* again: otherwise it « passerait pour un bouton qui ne fait rien »       *)
(* (mapView.ts:1221).                                                      *)
(***************************************************************************)
ButtonTells ==
  /\ enabled = (phase = "idle" /\ BleSupport(platform) = None)
  /\ phase = "idle" /\ mesh = None /\ meshError # None => line = meshError

DrawerTells == TypeOK /\ ButtonTells

(***************************************************************************)
(* An attempt that fails leaves no link behind it (bleRadioImpl.ts:194):   *)
(* every open link was attached, or its attempt is still going on.         *)
(***************************************************************************)
FailedLinksAreClosed ==
  meshError # None /\ phase = "idle" => attempt \notin links

(***************************************************************************)
(* No frame leaves while a more urgent one waits, nor one of its own rank  *)
(* that was queued before it (airtimeGovernor.ts:131).                     *)
(***************************************************************************)
UrgentFirst ==
  [][mesh' = mesh /\ now' = now /\ emitted' # emitted =>
       /\ \A e \in Len(emitted) + 1 .. Len(emitted'), q \in DOMAIN queue' :
            Rank(emitted'[e].kind) <= Rank(queue'[q].kind)
       /\ \A f \in SE!ToSet(queue) \ SE!ToSet(queue'), w \in SE!ToSet(queue') :
            Rank(f.kind) = Rank(w.kind) => f.at <= w.at]_vars

(***************************************************************************)
(* What a full queue gives up of what it held is never more urgent than    *)
(* anything it keeps (a newcomer it refuses leaves no trace to compare):   *)
(* « une avalanche de digests ne doit pas évincer des ordres »             *)
(* (airtimeGovernor.ts:119).                                               *)
(***************************************************************************)
OrdersSurvive ==
  [][mesh # None /\ mesh' = mesh /\ emitted' = emitted =>
       \A k \in Kind :
         Cardinality(Waiting(k)') < Cardinality(Waiting(k)) =>
           \A q \in DOMAIN queue' : Rank(queue'[q].kind) <= Rank(k)]_vars

(***************************************************************************)
(* Every attempt ends, even with a module that never answers: the screen   *)
(* does not stay on « Recherche du module… » (bleRadioImpl.ts:147).        *)
(***************************************************************************)
AttemptEnds == phase # "idle" ~> phase = "idle"

(***************************************************************************)
(* No link stays open in a page that does not use it: the module           *)
(* « resterait accaparé par un onglet qui ne s'en sert pas »               *)
(* (bleRadioImpl.ts:195).  It does, once it is disconnected by hand.       *)
(***************************************************************************)
NoIdleLink == phase = "idle" => links \subseteq {mesh}
=============================================================================
