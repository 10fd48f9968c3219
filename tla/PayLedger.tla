----------------------------- MODULE PayLedger -----------------------------
(***************************************************************************)
(* Topic 1 of layer 4: a payment, sent to the ledger up to MaxAttempts      *)
(* times over a network that may fail before, during and after              *)
(* (payments1.py and ledger.py; ambiguous_result.py is the same client and  *)
(* server in one process). A call that the client has given up may still    *)
(* reach the ledger, at any later time.                                     *)
(***************************************************************************)
EXTENDS Naturals

CONSTANTS
    RetryPolicy,   \* RETRY_POLICY: the values that the run looks at
    MaxAttempts    \* MAX_ATTEMPTS

ASSUME PayLedgerAssumption ==
    RetryPolicy \subseteq {"any", "safe-only"} /\ MaxAttempts \in Nat \ {0}

VARIABLES
    retryPolicy,
    pay,           \* where the handler is
    attempts,      \* attempts that it has begun
    call,          \* the call that is open: "out", "mute" (served, no reply) or the reply
    late,          \* calls given up that have not reached the ledger yet
    charges,       \* rows of t1_charges
    doubtful,      \* attempts that got an answer or that the client does not call safe
    status         \* the status of the answer to /pay

payVars == <<retryPolicy, pay, attempts, call, late, charges, doubtful, status>>

PayInit ==
    /\ retryPolicy \in RetryPolicy
    /\ pay = "idle" /\ attempts = 0
    /\ call = "none" /\ late = 0 /\ charges = 0
    /\ doubtful = 0 /\ status = "none"

\* Errors that come up before a connection, and after.
Unsent == {"ConnectError", "ConnectTimeout", "PoolTimeout"}
Sent == {"ReadTimeout", "WriteTimeout", "RemoteProtocolError", "ReadError"}

\* Mutant: a timeout is a timeout.
classify_Timeouts(e) ==
    IF e \in Unsent \cup {"ReadTimeout", "WriteTimeout"} THEN "safe" ELSE "ambiguous"

classify(e) == IF e \in Unsent THEN "safe" ELSE "ambiguous"

\* The except branch: the verdict is recorded, then the next attempt or the end.
\* The INSERT of the record may itself fail, and then /pay answers 500.
Except(e) ==
    LET verdict == classify(e)
        goesOn == attempts < MaxAttempts /\ (retryPolicy = "any" \/ verdict = "safe")
    IN  /\ doubtful' = IF verdict = "safe" THEN doubtful ELSE doubtful + 1
        /\ call' = "none" /\ late' = IF call = "out" THEN late + 1 ELSE late
        /\ \/ goesOn /\ pay' = "idle" /\ UNCHANGED status
           \/ ~goesOn /\ pay' = "answered" /\ status' = verdict
           \/ pay' = "answered" /\ status' = "500"

\* The next turn of the loop.
beginAttempt ==
    /\ pay = "idle"
    /\ attempts' = attempts + 1 /\ pay' = "connecting"
    /\ UNCHANGED <<retryPolicy, call, late, charges, doubtful, status>>

connectFails(e) ==
    /\ pay = "connecting" /\ e \in Unsent
    /\ Except(e)
    /\ UNCHANGED <<retryPolicy, attempts, charges>>

send ==
    /\ pay = "connecting"
    /\ pay' = "calling" /\ call' = "out"
    /\ UNCHANGED <<retryPolicy, attempts, late, charges, doubtful, status>>

\* The ledger: INSERT and COMMIT, then the reply, unless it dies in between
\* (CRASH_AFTER_COMMIT, reset, hang); or the INSERT fails and the reply is a 500.
charge ==
    /\ call = "out"
    /\ \/ charges' = charges + 1 /\ call' \in {"200", "mute"}
       \/ UNCHANGED charges /\ call' \in {"500", "mute"}
    /\ UNCHANGED <<retryPolicy, pay, attempts, late, doubtful, status>>

\* The same for a call that nobody waits for any more; or it never arrives.
chargeLate ==
    /\ late > 0 /\ late' = late - 1
    /\ charges' \in {charges, charges + 1}
    /\ UNCHANGED <<retryPolicy, pay, attempts, call, doubtful, status>>

\* The call raises, whatever has become of it.
callFails(e) ==
    /\ pay = "calling" /\ e \in Sent
    /\ Except(e)
    /\ UNCHANGED <<retryPolicy, attempts, charges>>

\* raise_for_status
refused500 ==
    /\ pay = "calling" /\ call = "500"
    /\ Except("HTTPStatusError")
    /\ UNCHANGED <<retryPolicy, attempts, charges>>

\* The success is recorded and answered; or the INSERT that records it raises,
\* inside the try, and the payment that went through is judged like one that
\* did not.
succeed ==
    /\ pay = "calling" /\ call = "200"
    /\ \/ /\ pay' = "answered" /\ status' = "success"
          /\ call' = "none" /\ doubtful' = doubtful + 1 /\ UNCHANGED late
       \/ Except("OperationalError")
    /\ UNCHANGED <<retryPolicy, attempts, charges>>

PayNext ==
    \/ beginAttempt
    \/ \E e \in Unsent : connectFails(e)
    \/ send
    \/ charge
    \/ chargeLate
    \/ \E e \in Sent : callFails(e)
    \/ refused500
    \/ succeed

PaySpec == PayInit /\ [][PayNext]_payVars

-----------------------------------------------------------------------------
(* Properties. *)

\* "Safe means PROVABLY never landed": counting the calls that are still under
\* way, no payment is charged more often than it had attempts that the client
\* did not call safe. A client that retries only what is safe therefore charges
\* once at most, whatever it gives up and however late that arrives; when it
\* answers "safe" there is no charge and none to come, and when it answers
\* "success" there is one.
SafeMeansSafe ==
    LET landing == charges + late + (IF call = "out" THEN 1 ELSE 0)
        open == IF pay = "calling" THEN 1 ELSE 0
    IN  /\ landing <= doubtful + open
        /\ retryPolicy = "safe-only" =>
              /\ landing <= 1
              /\ status = "safe" => landing = 0
        /\ status = "success" => charges >= 1
=============================================================================
