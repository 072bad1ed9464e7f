---------------------------- MODULE NativeTestProxy ----------------------------
(***************************************************************************)
(* backend/scripts/native-test-proxy.mjs: a local proxy whose tunnels to   *)
(* the staging hosts a test harness cuts and restores.  A tunnel joins two *)
(* sockets; a destroyed socket tells its listeners only later.             *)
(***************************************************************************)
EXTENDS Naturals, FiniteSets

CONSTANTS Tunnels,    \* bound: the CONNECT requests of one behaviour
          MaxTunnels  \* 64

ASSUME ProxyAssumption == MaxTunnels \in Nat

VARIABLES enabled, closing,
          tunnels,  \* the set that /healthz counts and /disable destroys
          socket    \* of each tunnel, the state of its client and of its upstream side

proxyVars == <<enabled, closing, tunnels, socket>>

Sides == {"client", "upstream"}
Live == {"opening", "open"}

ProxyTypeOK ==
  /\ enabled \in BOOLEAN
  /\ closing \in BOOLEAN
  /\ tunnels \subseteq Tunnels
  /\ socket \in [Tunnels -> [Sides -> {"none", "opening", "open", "destroyed"}]]

ProxyInit ==
  /\ enabled = TRUE
  /\ closing = FALSE
  /\ tunnels = {}
  /\ socket = [t \in Tunnels |-> [s \in Sides |-> "none"]]

-------------------------------------------------------------------------------

TunnelEnded == [s \in Sides |-> "destroyed"]

\* Mutant: the last place is given away twice.
Full_OffByOne == Cardinality(tunnels) > MaxTunnels

TunnelsFull == Cardinality(tunnels) >= MaxTunnels

\* A CONNECT request: refused for another host or while cut, else its upstream is opened.
ConnectRequest(t) ==
  /\ socket[t].client = "none"
  /\ \/ socket' = [socket EXCEPT ![t] = TunnelEnded] /\ UNCHANGED tunnels
     \/ /\ enabled /\ ~closing /\ ~TunnelsFull
        /\ socket' = [socket EXCEPT ![t] = [client |-> "open", upstream |-> "opening"]]
        /\ tunnels' = tunnels \cup {t}
  /\ UNCHANGED <<enabled, closing>>

\* Mutant: the end of a tunnel leaves the other side open.
CleanupTunnel_Untracks(t) ==
  /\ tunnels' = tunnels \ {t}
  /\ UNCHANGED socket

CleanupTunnel(t) ==
  /\ tunnels' = tunnels \ {t}
  /\ socket' = [socket EXCEPT ![t] = TunnelEnded]

\* A socket is gone (its peer closed it, or it failed); the event comes later.
Lost(t, side) ==
  /\ socket[t][side] \in Live
  /\ socket' = [socket EXCEPT ![t][side] = "destroyed"]
  /\ UNCHANGED <<enabled, closing, tunnels>>

\* The 'error' or 'close' event of a side, or the timeout of an upstream that does not open.
SideEnds(t) ==
  /\ t \in tunnels
  /\ \/ \E side \in Sides : socket[t][side] = "destroyed"
     \/ socket[t].upstream = "opening"
  /\ CleanupTunnel(t)
  /\ UNCHANGED <<enabled, closing>>

\* The upstream is there: bytes flow, unless the tunnel was cut meanwhile.
Established(t) ==
  /\ socket[t].upstream = "opening"
  /\ IF ~enabled \/ closing \/ socket[t].client = "destroyed"
       THEN CleanupTunnel(t)
       ELSE socket' = [socket EXCEPT ![t].upstream = "open"] /\ UNCHANGED tunnels
  /\ UNCHANGED <<enabled, closing>>

\* Mutant: only the tunnels whose upstream answered are cut.
DestroyTunnels_OpenOnly ==
  /\ socket' = [t \in Tunnels |-> IF t \in tunnels /\ socket[t].upstream = "open"
                                    THEN TunnelEnded ELSE socket[t]]
  /\ tunnels' = {}

DestroyTunnels ==
  /\ socket' = [t \in Tunnels |-> IF t \in tunnels THEN TunnelEnded ELSE socket[t]]
  /\ tunnels' = {}

\* POST /enable or /disable with the control key.
Control(enable) ==
  /\ enabled' = (enable /\ ~closing)
  /\ IF enabled' THEN UNCHANGED <<tunnels, socket>> ELSE DestroyTunnels
  /\ UNCHANGED closing

CloseProxy ==
  /\ ~closing
  /\ closing' = TRUE
  /\ enabled' = FALSE
  /\ DestroyTunnels

ProxyNext ==
  \/ CloseProxy
  \/ \E enable \in BOOLEAN : Control(enable)
  \/ \E t \in Tunnels : ConnectRequest(t) \/ SideEnds(t) \/ Established(t)
  \/ \E t \in Tunnels, side \in Sides : Lost(t, side)

ProxySpec == ProxyInit /\ [][ProxyNext]_proxyVars

-------------------------------------------------------------------------------

SocketAlive(t) == \E side \in Sides : socket[t][side] \in Live

\* While the staging outage is simulated nothing reaches staging: no tunnel has a live
\* socket, not even one whose upstream was still opening when /disable or close came.
DisabledMeansCut == ~enabled => \A t \in Tunnels : ~SocketAlive(t)

\* What /healthz counts and /disable destroys is all there is: a tunnel that left the set,
\* on whichever of its events, has no live side.
NothingUntracked == \A t \in Tunnels \ tunnels : ~SocketAlive(t)

\* The cap of 64 holds for sockets, not only for the set.
TunnelsBounded == Cardinality({t \in Tunnels : SocketAlive(t)}) <= MaxTunnels
===============================================================================
