----------------------------- MODULE MCChannels -----------------------------
(***************************************************************************)
(* Instances of the bridges for TLC.  A behaviour follows one of five      *)
(* parts that share no state: the Weixin bridge with two workers on two    *)
(* messages of a chat, with one worker and every way out of the gateway,   *)
(* its video queue, the Feishu bridge, and the life of a claim's lease.    *)
(***************************************************************************)
EXTENDS ClaimLease, WeixinBridge, VideoQueue, TLC

CONSTANT alice

TwoMessages == <<alice, alice>>

VARIABLES
  part,
  rCursor, rInbox, rOutbox, rVideo, rWorker, rTurn, rOutage, rLanded, rMedia,
  rFaults, rOutages, rPrunes,
  fCursor, fInbox, fOutbox, fWorker, fTurn, uploads, known, fLanded, fFaults

\* One worker; the answer of the first message brings a picture.
Routes == INSTANCE WeixinBridge WITH
  Chats <- {alice}, ChatOf <- TwoMessages, Chunks <- 1, VideoRoom <- 1,
  Workers <- {"worker"}, Pictures <- {1}, Videos <- {}, MaxFailures <- 2, MaxSends <- 2,
  MaxMishaps <- 1, Outages <- 1, Prunes <- 1,
  cursor <- rCursor, inbox <- rInbox, outbox <- rOutbox, video <- rVideo,
  worker <- rWorker, turn <- rTurn, outage <- rOutage, landed <- rLanded,
  media <- rMedia, mishaps <- rFaults, outages <- rOutages, prunes <- rPrunes

\* Two workers; the answer of the first message brings a picture.
Feishu == INSTANCE FeishuBridge WITH
  Chats <- {alice}, ChatOf <- TwoMessages, Pictures <- {1}, InRoom <- 1, OutRoom <- 2,
  MaxAttempts <- 2, MaxSends <- 2, MaxFaults <- 2,
  cursor <- fCursor, inbox <- fInbox, outbox <- fOutbox, worker <- fWorker,
  turn <- fTurn, landed <- fLanded, faults <- fFaults

ASSUME Routes!BridgeAssumption /\ Feishu!FeishuAssumption

routeVars == <<rCursor, rInbox, rOutbox, rVideo, rWorker, rTurn, rOutage,
               rLanded, rMedia, rFaults, rOutages, rPrunes>>
feishuVars == <<fCursor, fInbox, fOutbox, fWorker, fTurn, uploads, known,
                fLanded, fFaults>>

PartsInit ==
  /\ part \in {"order", "routes", "queue", "feishu", "lease"}
  /\ Init /\ BridgeInit /\ QueueInit /\ Routes!BridgeInit /\ Feishu!FeishuInit

\* In the routes either the models are out or a group is removed; the second
\* message comes to Feishu where no more than one thing goes wrong.
PartsNext ==
  \/ part = "lease" /\ Next
     /\ UNCHANGED <<part, bridgeVars, routeVars, queueVars, feishuVars>>
  \/ part = "order" /\ BridgeNext
     /\ UNCHANGED <<part, vars, routeVars, queueVars, feishuVars>>
  \/ part = "routes" /\ Routes!BridgeNext /\ rOutages' + rPrunes' <= 1
     /\ UNCHANGED <<part, vars, bridgeVars, queueVars, feishuVars>>
  \/ part = "queue" /\ QueueNext
     /\ UNCHANGED <<part, vars, bridgeVars, routeVars, feishuVars>>
  \/ part = "feishu" /\ Feishu!FeishuNext /\ fCursor' + fFaults' <= 3
     /\ UNCHANGED <<part, vars, bridgeVars, routeVars, queueVars>>

PartsSpec ==
  PartsInit /\ [][PartsNext]_<<part, vars, bridgeVars, routeVars, queueVars, feishuVars>>

\* What arrives in a chat belongs to no earlier message, chunk or video than
\* what has arrived before; at Feishu, with two workers, it arrives once, and what
\* counts as handled is answered.
OrderIsKept ==
  /\ OrderKept /\ Routes!OrderKept /\ VideosInOrder
  /\ Feishu!OrderKept /\ []Feishu!DeliveriesAreSent

Symmetry == Permutations(Workers)
=============================================================================
