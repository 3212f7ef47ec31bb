\* Every order of init, the owner's join, the client thread's allocations
\* (any subset of its eight fields, in any order), its exit, a stop and the
\* free handler.  The connection is over once the free handler has returned
\* or faulted, so those final states have no successor.
SPECIFICATION Spec
INVARIANT NoUseAfterFree
CHECK_DEADLOCK FALSE
