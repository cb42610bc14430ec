-------------------------- MODULE MCAtomicRelease --------------------------
(* AtomicRelease with the values that a TLC configuration cannot write.     *)
EXTENDS AtomicRelease

\* A negative number of retries is no limit.
Unlimited == -1
=============================================================================
