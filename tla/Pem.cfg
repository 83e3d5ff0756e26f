\* All files of up to five sections: enough for a key, two keys and sections
\* that cannot be read in every order.  A function that has returned stops.
SPECIFICATION Spec
CONSTANTS
    MaxSections = 5
INVARIANTS
    CertsCorrect
    KeyCorrect
    FirstKeyCorrect
CHECK_DEADLOCK FALSE
