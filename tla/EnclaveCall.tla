----------------------------- MODULE EnclaveCall -----------------------------
(***************************************************************************)
(* The untrusted runtime's side of an ECALL, as the App's threads see it.  *)
(* A thread needs a thread control structure (TCS) of the enclave for as   *)
(* long as it is inside, an OCALL that blocks on a condition variable      *)
(* included.  The enclave has TCS_NUM of them (TCSNum, TCSMinPool and      *)
(* TCSMaxNum in Enclave.config.xml, all equal: the pool does not grow).    *)
(* When none is free the call does not wait, it fails.                     *)
(*                                                                         *)
(* A power transition of the machine may destroy the enclave at any time.  *)
(* Nothing tells the threads: one that runs inside, or comes back from an  *)
(* OCALL, finds that its ECALL has failed; one that sleeps in an OCALL     *)
(* finds out only when somebody wakes it.                                  *)
(*                                                                         *)
(* Every caller in App/TrustedLibrary/Thread.cpp calls abort() when the    *)
(* status of its ECALL is not SGX_SUCCESS, whatever it is.                 *)
(*                                                                         *)
(* The runtime is not part of the repository: it is modelled from its use. *)
(***************************************************************************)
EXTENDS Integers, FiniteSets

CONSTANT TCS_NUM                        \* number of TCSs of the enclave

ASSUME TcsAssumption == TCS_NUM \in Nat \ {0}

VARIABLES tcs,                          \* threads that hold a TCS
          lost,                         \* the enclave was destroyed
          aborted                       \* abort() ended the process

callVars == <<tcs, lost, aborted>>

CallInit == tcs = {} /\ lost = FALSE /\ aborted = FALSE

\* The ECALL gets a TCS and control passes into the enclave.
AcquireTcs(t) ==
    /\ ~lost /\ Cardinality(tcs) < TCS_NUM
    /\ tcs' = tcs \cup {t}
    /\ UNCHANGED <<lost, aborted>>

\* The ECALL returns SGX_SUCCESS.
ReleaseTcs(t) ==
    /\ ~lost
    /\ tcs' = tcs \ {t}
    /\ UNCHANGED <<lost, aborted>>

\* The enclave is destroyed: no thread takes another step inside.
LoseEnclave ==
    /\ ~lost /\ lost' = TRUE
    /\ UNCHANGED <<tcs, aborted>>

\* An ECALL returns a status that is not SGX_SUCCESS (no TCS was free, the
\* enclave is lost, or any other error) and its caller aborts the process.
CallFails ==
    /\ aborted' = TRUE
    /\ UNCHANGED <<tcs, lost>>
==============================================================================
