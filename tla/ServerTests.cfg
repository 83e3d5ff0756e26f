\* Twelve tests and four uses of the repository's examples, two clients at most.
\* A test that is over stops.
SPECIFICATION Spec
PROPERTY
    TestsPass
CHECK_DEADLOCK FALSE
