\* The client is stopped before any user joined, and the free handler joins
\* the thread that was never created.
SPECIFICATION Spec
PROPERTY JoinsCreatedThread
CHECK_DEADLOCK FALSE
