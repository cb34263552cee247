------------------------------- MODULE MCSaga -------------------------------
EXTENDS Saga

\* A resolve-only step whose late success is kept, then a cancellable one whose
\* late success is reversed.
QueriedMode == <<"ResolveOnly", "Cancellable">>

\* A local step, then a cancellable one.
LocalMode == <<"Local", "Cancellable">>

AcceptThenCompensate == <<"Accept", "Compensate">>
=============================================================================
