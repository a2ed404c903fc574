------------------------------ MODULE MCRouter ------------------------------
(* Instances of Router for TLC: two turns of one process, one of which has *)
(* a second provider to fall back on, and the consolidation job's process. *)
EXTENDS Router, TLC

CONSTANTS first, second, turn1, turn2, job, api, cron

MCChain == turn1 :> <<first, second>> @@ turn2 :> <<first>>
MCProcessOf == turn1 :> api @@ turn2 :> api
MCRequestLimit == first :> 1 @@ second :> Unlimited

\* second is only failed over to: what it would answer has no budget to exceed.
MCMaxServed == first :> 3 @@ second :> 0

\* A turn and the job, both at the one provider they share.
MCSharedChain == turn1 :> <<first>> @@ job :> <<first>>
MCSharedProcessOf == turn1 :> api @@ job :> cron
MCSharedLimit == first :> Unlimited
MCSharedServed == first :> 1
=============================================================================
