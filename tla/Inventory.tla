----------------------------- MODULE Inventory ------------------------------
(***************************************************************************)
(* The requests for one inventory item, a block or a transaction: every     *)
(* peer that announces it gets an entry in its mapAskFor, with the time at  *)
(* which it may be asked; mapAlreadyAskedFor is shared by the peers and     *)
(* spaces the requests.  Peers may answer, be silent or go away.            *)
(*                                                                          *)
(* The clock counts half retry intervals.  AskFor's nLastTime, which keeps  *)
(* the entries of different items in order, is left out.                    *)
(***************************************************************************)
EXTENDS Integers, FiniteSets

CONSTANTS
    Peer,
    Honest,         \* the peers that answer a getdata and do not go away
    LastInv,        \* bound: no announcement later than this
    MaxClock,       \* bound on the clock, late enough for every entry made by then
    MaxForgotten,   \* how often the node may lose the item again
    Prompt          \* SendMessages comes round in every unit of time

ASSUME InventoryAssumption ==
    /\ IsFiniteSet(Peer) /\ Honest \subseteq Peer
    /\ LastInv \in Nat /\ MaxClock \in Nat /\ MaxForgotten \in Nat /\ Prompt \in BOOLEAN

Retry == 2          \* two minutes

ASSUME ClockAssumption ==
    MaxClock >= Retry /\ MaxClock >= LastInv + Retry * (Cardinality(Peer) - 1)

VARIABLES
    clock,              \* GetTime
    mapAlreadyAskedFor, \* the time of the last request, 0 when there is none
    mapAskFor,          \* for every peer, the times of its entries
    getdata,            \* the peers with an unanswered getdata
    have,               \* AlreadyHave: indexed, in the pool, or an orphan
    forgotten,
    \* history
    announced,          \* the peers that have announced the item
    lastSent,           \* the time of the last getdata not followed by an acceptance, or -1
    verdict             \* the item has been received

ivars == <<clock, mapAlreadyAskedFor, mapAskFor, getdata, have, forgotten,
           announced, lastSent, verdict>>

Time == 0 .. MaxClock

InventoryTypeOK ==
    /\ clock \in Time
    /\ mapAlreadyAskedFor \in Time
    /\ mapAskFor \in [Peer -> SUBSET Time]
    /\ getdata \subseteq Peer /\ announced \subseteq Peer
    /\ have \in BOOLEAN /\ verdict \in BOOLEAN
    /\ forgotten \in 0 .. MaxForgotten
    /\ lastSent \in Time \cup {-1}

\* GetTime is far from 0, the value of a missing entry of mapAlreadyAskedFor.
InventoryInit ==
    /\ clock = Retry
    /\ mapAlreadyAskedFor = 0
    /\ mapAskFor = [p \in Peer |-> {}]
    /\ getdata = {} /\ announced = {}
    /\ have \in BOOLEAN /\ verdict = FALSE
    /\ forgotten = 0
    /\ lastSent = -1

Later(s, t) == IF s > t THEN s ELSE t

(***************************************************************************)
(* CNode::AskFor.  "Each retry is 2 minutes after the last"                 *)
(***************************************************************************)
\* A plausible bug: every request waits, the first one too.
AskForAlwaysLater(p) ==
    LET nRequestTime == Later(mapAlreadyAskedFor, clock) + Retry
    IN  /\ mapAlreadyAskedFor' = nRequestTime
        /\ mapAskFor' = [mapAskFor EXCEPT ![p] = @ \cup {nRequestTime}]

AskFor(p) ==
    LET nRequestTime == Later(mapAlreadyAskedFor + Retry, clock)
    IN  /\ mapAlreadyAskedFor' = nRequestTime
        /\ mapAskFor' = [mapAskFor EXCEPT ![p] = @ \cup {nRequestTime}]

\* An inv message.  A peer announces an item once.
Inv(p) ==
    /\ p \notin announced /\ clock <= LastInv
    /\ announced' = announced \cup {p}
    /\ IF have THEN UNCHANGED <<mapAlreadyAskedFor, mapAskFor>> ELSE AskFor(p)
    /\ UNCHANGED <<clock, getdata, have, forgotten, lastSent, verdict>>

(***************************************************************************)
(* The end of SendMessages, for a peer with an entry that is due.           *)
(***************************************************************************)
\* A plausible bug: the time of the request is not noted when it is sent.
SendGetDataUnnoted(p) ==
    \E t \in mapAskFor[p] :
        /\ t <= clock /\ \A u \in mapAskFor[p] : t <= u
        /\ mapAskFor' = [mapAskFor EXCEPT ![p] = @ \ {t}]
        /\ IF have THEN UNCHANGED <<getdata, lastSent>>
                   ELSE getdata' = getdata \cup {p} /\ lastSent' = clock
        /\ UNCHANGED <<clock, mapAlreadyAskedFor, have, forgotten, announced, verdict>>

\* A plausible bug: an entry is dropped while another request is under way.
SendGetDataOnce(p) ==
    \E t \in mapAskFor[p] :
        /\ t <= clock /\ \A u \in mapAskFor[p] : t <= u
        /\ mapAskFor' = [mapAskFor EXCEPT ![p] = @ \ {t}]
        /\ IF have \/ getdata # {}
             THEN UNCHANGED <<getdata, lastSent, mapAlreadyAskedFor>>
             ELSE /\ getdata' = getdata \cup {p}
                  /\ mapAlreadyAskedFor' = clock /\ lastSent' = clock
        /\ UNCHANGED <<clock, have, forgotten, announced, verdict>>

SendGetData(p) ==
    \E t \in mapAskFor[p] :
        /\ t <= clock /\ \A u \in mapAskFor[p] : t <= u
        /\ mapAskFor' = [mapAskFor EXCEPT ![p] = @ \ {t}]
        /\ IF have
             THEN UNCHANGED <<getdata, lastSent, mapAlreadyAskedFor>>
             ELSE /\ getdata' = getdata \cup {p}
                  /\ mapAlreadyAskedFor' = clock /\ lastSent' = clock
        /\ UNCHANGED <<clock, have, forgotten, announced, verdict>>

(***************************************************************************)
(* The item arrives: accepted, or held as an orphan block; held as an       *)
(* orphan transaction, which leaves mapAlreadyAskedFor alone, as does a     *)
(* refusal.                                                                 *)
(***************************************************************************)
Receive(p) ==
    /\ p \in getdata
    /\ getdata' = getdata \ {p}
    /\ verdict' = TRUE
    /\ \/ ~ have /\ have' = TRUE /\ mapAlreadyAskedFor' = 0 /\ lastSent' = -1
       \/ ~ have /\ have' = TRUE /\ UNCHANGED <<mapAlreadyAskedFor, lastSent>>
       \/ UNCHANGED <<have, mapAlreadyAskedFor, lastSent>>
    /\ UNCHANGED <<clock, mapAskFor, forgotten, announced>>

\* An orphan is erased, or a transaction leaves the pool.
Forget ==
    /\ have /\ forgotten < MaxForgotten
    /\ have' = FALSE
    /\ forgotten' = forgotten + 1
    /\ UNCHANGED <<clock, mapAlreadyAskedFor, mapAskFor, getdata, announced, lastSent, verdict>>

\* The node of a peer that goes away is deleted, its mapAskFor with it.
Disconnect(p) ==
    /\ p \in announced \ Honest /\ (p \in getdata \/ mapAskFor[p] # {})
    /\ mapAskFor' = [mapAskFor EXCEPT ![p] = {}]
    /\ getdata' = getdata \ {p}
    /\ UNCHANGED <<clock, mapAlreadyAskedFor, have, forgotten, announced, lastSent, verdict>>

Tick ==
    /\ clock < MaxClock
    /\ Prompt => \A p \in Peer : \A t \in mapAskFor[p] : t > clock
    /\ clock' = clock + 1
    /\ UNCHANGED <<mapAlreadyAskedFor, mapAskFor, getdata, have, forgotten,
                   announced, lastSent, verdict>>

InventoryNext ==
    \/ \E p \in Peer : Inv(p) \/ SendGetData(p) \/ Receive(p) \/ Disconnect(p)
    \/ Forget \/ Tick

(***************************************************************************)
(* ThreadMessageHandler calls SendMessages for every peer in turn, time     *)
(* passes, and the honest peers answer.                                     *)
(***************************************************************************)
InventorySpec ==
    /\ InventoryInit /\ [][InventoryNext]_ivars
    /\ WF_ivars(Tick)
    /\ \A p \in Peer : WF_ivars(SendGetData(p))
    /\ \A p \in Honest : WF_ivars(Receive(p))

-----------------------------------------------------------------------------
(***************************************************************************)
(* An item that is to be asked of an honest peer arrives, whatever the      *)
(* other peers do with the requests they were sent before it (AskFor,       *)
(* SendMessages).                                                           *)
(***************************************************************************)
ItemArrives == \A p \in Honest : mapAskFor[p] # {} ~> verdict \/ have

(***************************************************************************)
(* Once a getdata has been sent, no request that is queued later leaves     *)
(* within two minutes of it, for any peer (AskFor, and the time SendMessages*)
(* notes).                                                                  *)
(***************************************************************************)
NewRequestsWait ==
    [][\A p \in Peer : \A t \in mapAskFor'[p] \ mapAskFor[p] :
          lastSent >= 0 => t >= lastSent + Retry]_ivars

(***************************************************************************)
(* The inductive invariant behind the types and NewRequestsWait: the last   *)
(* getdata is not later than the time noted, and while there may still be   *)
(* announcements the notes are at most one retry per announcement ahead.    *)
(***************************************************************************)
InventoryInv ==
    /\ InventoryTypeOK
    /\ \A p \in Peer : mapAskFor[p] # {} => p \in announced
    /\ clock <= LastInv =>
          mapAlreadyAskedFor <= LastInv + Retry * (Cardinality(announced) - 1)
    /\ lastSent <= mapAlreadyAskedFor

(***************************************************************************)
(* "Each retry is 2 minutes after the last" (AskFor): two requests for one  *)
(* item that is not received in between are that far apart.                 *)
(***************************************************************************)
RetriesSpaced ==
    [][getdata' \ getdata # {} /\ lastSent >= 0 => clock - lastSent >= Retry]_ivars

=============================================================================
