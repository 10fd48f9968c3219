CONSTANTS
    Writer = {w1, w2}
    Listener = {l}
    Poller = {p}
    Hwm = hwm
    BATCH = 2
    MaxId = 3
SPECIFICATION FairSpec
INVARIANTS  DeliveredOnce
PROPERTIES NeverLooksBack EveryRowIsDelivered WhatItSeesItDelivers
CHECK_DEADLOCK FALSE
