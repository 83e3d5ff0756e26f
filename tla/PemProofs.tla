----------------------------- MODULE PemProofs ------------------------------
(***************************************************************************)
(* The PEM loaders are correct for files of any length.                    *)
(***************************************************************************)
EXTENDS Pem, TLAPS

LEMMA InvInit == Init => Inv
  <1> SUFFICES ASSUME Init PROVE Inv
    OBVIOUS
  <1>1. TypeOK
    <2>1. i \in 1..(length + 1)
      BY SectionsAssumption DEF Init
    <2>2. done \in BOOLEAN
      BY DEF Init
    <2> QED
      BY <2>1, <2>2 DEF Init, TypeOK, Sections, Results
  <1>2. \A k : Passed(k) = {}
    BY DEF Init, Passed
  <1>3. LoopInv
    BY <1>2 DEF Init, LoopInv
  <1> QED
    BY <1>1, <1>3 DEF Init, Inv, CertsCorrect, KeyCorrect, FirstKeyCorrect

(* One more section passed.                                                *)
LEMMA PassedNext ==
  ASSUME TypeOK, i <= length, i' = i + 1, file' = file, NEW k
  PROVE  Passed(k)' = IF file[i] = k THEN Passed(k) \cup {i} ELSE Passed(k)
  BY SectionsAssumption DEF TypeOK, Passed, Sections

(* All sections passed.                                                    *)
LEMMA PassedAll ==
  ASSUME TypeOK, i > length, NEW k
  PROVE  Passed(k) = OfKind(k)
  BY SectionsAssumption DEF TypeOK, Passed, OfKind, Sections

(* What has been passed is in the file, and so is the section at i.        *)
LEMMA PassedSome ==
  ASSUME TypeOK, NEW k
  PROVE  /\ Passed(k) \subseteq OfKind(k)
         /\ i <= length /\ file[i] = k => i \in OfKind(k)
         /\ i \notin Passed(k)
  BY SectionsAssumption DEF TypeOK, Passed, OfKind, Sections

(* At most one section comes first.                                        *)
LEMMA FirstIsOne ==
  ASSUME TypeOK, NEW j \in Sections, NEW k \in Sections, First(j), First(k),
         file[j] # "other", file[k] # "other"
  PROVE  j = k
  <1>1. j \in Nat /\ k \in Nat /\ 1 <= j /\ 1 <= k
    BY SectionsAssumption DEF TypeOK, Sections
  <1>2. ~(j < k) /\ ~(k < j)
    BY <1>1 DEF First
  <1> QED
    BY <1>1, <1>2

(* The loader of the first key is at the first section that is not passed  *)
(* over.                                                                   *)
LEMMA FirstHere ==
  ASSUME Inv, ~done, loader = "first_key"
  PROVE  First(i)
  <1>1. Passed("wanted") = {} /\ Passed("bad") = {}
    BY DEF Inv, LoopInv
  <1> QED
    BY <1>1, SectionsAssumption DEF Passed, First, Inv, TypeOK, Kinds, Sections

(* A step that goes on.                                                    *)
LEMMA Continues ==
  ASSUME Inv, ~done, i <= length, NEW r \in Results, NEW t \in SUBSET Sections,
         Continue(r, t)
  PROVE  /\ TypeOK'
         /\ (CertsCorrect /\ KeyCorrect /\ FirstKeyCorrect)'
  <1>1. i' \in 1..(length' + 1)
    BY SectionsAssumption DEF Continue, Input, Inv, TypeOK
  <1>2. ~done' /\ done' \in BOOLEAN
    BY DEF Continue, Inv, TypeOK
  <1>3. TypeOK'
    BY <1>1, <1>2 DEF Continue, Input, Inv, TypeOK, Sections
  <1> QED
    BY <1>2, <1>3 DEF CertsCorrect, KeyCorrect, FirstKeyCorrect

(* A step that returns.                                                    *)
LEMMA Returns ==
  ASSUME Inv, NEW r \in Results, NEW t \in SUBSET Sections, Return(r, t)
  PROVE  /\ TypeOK'
         /\ LoopInv'
         /\ \A k : OfKind(k)' = OfKind(k)
         /\ done' = TRUE /\ result' = r /\ taken' = t
         /\ UNCHANGED <<loader, file, length>>
  BY DEF Return, Input, Inv, TypeOK, LoopInv, OfKind, Sections

LEMMA InvNext == Inv /\ Next => Inv'
  <1> SUFFICES ASSUME Inv, Next PROVE Inv'
    OBVIOUS
  <1>0. TypeOK /\ LoopInv
    BY DEF Inv
  <1>t. /\ result \in Results
        /\ taken \in SUBSET Sections
        /\ i <= length => i \in Sections
        /\ i \in Nat /\ length \in Nat
    BY <1>0, SectionsAssumption DEF TypeOK, Sections
  <1>1. CASE Skip
    <2>1. /\ ~done /\ i <= length /\ file[i] = "other"
          /\ Continue(result, taken)
      BY <1>1 DEF Skip, Yields
    <2>2. Passed("wanted")' = Passed("wanted") /\ Passed("bad")' = Passed("bad")
      BY <1>0, <2>1, PassedNext DEF Continue, Input
    <2>3. LoopInv'
      BY <1>0, <2>1, <2>2 DEF LoopInv, Continue, Input
    <2> QED
      BY <1>t, <2>1, <2>3, Continues DEF Inv
  <1>2. CASE Exhausted
    <2>1. ~done /\ i > length /\ Return(result, taken)
      BY <1>2 DEF Exhausted
    <2>2. Passed("wanted") = OfKind("wanted") /\ Passed("bad") = OfKind("bad")
      BY <1>0, <2>1, PassedAll
    <2>3. OfKind("wanted") \subseteq Sections
      BY DEF OfKind
    <2>4. /\ TypeOK' /\ LoopInv'
          /\ OfKind("wanted")' = OfKind("wanted")
          /\ OfKind("bad")' = OfKind("bad")
          /\ result' = result /\ taken' = taken
          /\ loader' = loader /\ length' = length /\ file' = file
      BY <1>t, <2>1, Returns
    <2>5. CertsCorrect'
      BY <1>0, <2>1, <2>2, <2>4 DEF CertsCorrect, LoopInv
    <2>6. KeyCorrect'
      <3>1. Sections' = Sections
        BY <2>4 DEF Sections
      <3>2. CASE loader = "private_key"
        <4>1. /\ taken = OfKind("wanted")
              /\ \A j, k \in OfKind("wanted") : j = k
              /\ OfKind("wanted") # {} <=> result = "ok"
              /\ OfKind("wanted") = {} =>
                  result = IF OfKind("bad") = {} THEN "no_keys" ELSE "bad_pem"
          BY <1>0, <2>1, <2>2, <3>2 DEF LoopInv
        <4> QED
          BY <4>1, <2>4, <3>1 DEF KeyCorrect
      <3> QED
        BY <2>4, <3>2 DEF KeyCorrect
    <2>7. FirstKeyCorrect'
      <3>1. loader = "first_key" =>
              /\ OfKind("wanted") = {} /\ OfKind("bad") = {}
              /\ result = "no_keys" /\ taken = {}
        BY <1>0, <2>1, <2>2 DEF LoopInv
      <3> QED
        BY <2>4, <3>1 DEF FirstKeyCorrect
    <2> QED
      BY <2>4, <2>5, <2>6, <2>7 DEF Inv
  <1>3. CASE CertOk
    <2>1. /\ ~done /\ i <= length /\ file[i] = "wanted"
          /\ loader = "certificates"
          /\ Continue("ok", taken \cup {i})
      BY <1>3 DEF CertOk, Yields
    <2>2. /\ Passed("wanted")' = Passed("wanted") \cup {i}
          /\ Passed("bad")' = Passed("bad")
      BY <1>0, <2>1, PassedNext DEF Continue, Input
    <2>3. LoopInv'
      BY <1>0, <2>1, <2>2 DEF LoopInv, Continue, Input
    <2> QED
      BY <1>t, <2>1, <2>3, Continues DEF Inv, Results
  <1>4. CASE CertErr
    <2>1. /\ ~done /\ i <= length /\ file[i] = "bad"
          /\ loader = "certificates"
          /\ Return("bad_pem", {})
      BY <1>4 DEF CertErr, Yields
    <2>2. i \in OfKind("bad")
      BY <1>0, <2>1, PassedSome
    <2> QED
      BY <2>1, <2>2, Returns
         DEF Inv, Results, CertsCorrect, KeyCorrect, FirstKeyCorrect
  <1>5. CASE KeyOk
    <2>1. /\ ~done /\ i <= length /\ file[i] = "wanted"
          /\ loader = "private_key"
      BY <1>5 DEF KeyOk, Yields
    <2>2. CASE result = "ok"
      <3>1. Return("multiple", {})
        BY <1>5, <2>2 DEF KeyOk
      <3>2. PICK j \in Passed("wanted") : j \in OfKind("wanted") /\ j # i
        BY <1>0, <2>1, <2>2, PassedSome DEF LoopInv
      <3>3. i \in OfKind("wanted")
        BY <1>0, <2>1, PassedSome
      <3>4. \E m, n \in OfKind("wanted") : m # n
        BY <3>2, <3>3
      <3>5. /\ TypeOK' /\ LoopInv'
            /\ OfKind("wanted")' = OfKind("wanted")
            /\ result' = "multiple" /\ taken' = {} /\ loader' = "private_key"
            /\ Sections' = Sections
        BY <2>1, <3>1, Returns DEF Results, Sections
      <3>6. KeyCorrect'
        BY <3>4, <3>5 DEF KeyCorrect
      <3> QED
        BY <3>5, <3>6 DEF Inv, CertsCorrect, FirstKeyCorrect
    <2>3. CASE result # "ok"
      <3>1. Continue("ok", {i})
        BY <1>5, <2>3 DEF KeyOk
      <3>2. Passed("wanted")' = Passed("wanted") \cup {i}
        BY <1>0, <2>1, <3>1, PassedNext DEF Continue, Input
      <3>3. Passed("wanted") = {}
        BY <1>0, <2>1, <2>3 DEF LoopInv
      <3>4. LoopInv'
        BY <1>0, <2>1, <3>1, <3>2, <3>3 DEF LoopInv, Continue, Input
      <3> QED
        BY <1>t, <2>1, <3>1, <3>4, Continues DEF Inv, Results
    <2> QED
      BY <2>2, <2>3
  <1>6. CASE KeyErr
    <2>1. /\ ~done /\ i <= length /\ file[i] = "bad"
          /\ loader = "private_key"
      BY <1>6 DEF KeyErr, Yields
    <2>2. CASE result = "ok"
      <3>1. Continue(result, taken)
        BY <1>6, <2>2 DEF KeyErr
      <3>2. Passed("wanted")' = Passed("wanted")
        BY <1>0, <2>1, <3>1, PassedNext DEF Continue, Input
      <3>3. LoopInv'
        BY <1>0, <2>1, <2>2, <3>1, <3>2 DEF LoopInv, Continue, Input
      <3> QED
        BY <1>t, <2>1, <3>1, <3>3, Continues DEF Inv
    <2>3. CASE result # "ok"
      <3>1. Continue("bad_pem", {})
        BY <1>6, <2>3 DEF KeyErr
      <3>2. /\ Passed("wanted")' = Passed("wanted")
            /\ Passed("bad")' = Passed("bad") \cup {i}
        BY <1>0, <2>1, <3>1, PassedNext DEF Continue, Input
      <3>3. Passed("wanted") = {}
        BY <1>0, <2>1, <2>3 DEF LoopInv
      <3>4. LoopInv'
        BY <1>0, <2>1, <3>1, <3>2, <3>3 DEF LoopInv, Continue, Input
      <3> QED
        BY <1>t, <2>1, <3>1, <3>4, Continues DEF Inv, Results
    <2> QED
      BY <2>2, <2>3
  <1>7. CASE FirstOk
    <2>1. /\ ~done /\ i <= length /\ file[i] = "wanted"
          /\ loader = "first_key"
          /\ Return("ok", {i})
      BY <1>7 DEF FirstOk, Yields
    <2>2. i \in OfKind("wanted")
      BY <1>0, <2>1, PassedSome
    <2>3. \A j \in Sections : First(j) /\ file[j] # "other" => j = i
      BY <1>0, <1>t, <2>1, FirstHere, FirstIsOne
    <2>4. /\ TypeOK' /\ LoopInv'
          /\ \A k : OfKind(k)' = OfKind(k)
          /\ result' = "ok" /\ taken' = {i}
          /\ loader' = "first_key" /\ file' = file
      BY <1>t, <2>1, Returns DEF Results
    <2>5. FirstKeyCorrect'
      <3>1. \A j : First(j)' <=> First(j)
        BY <2>4 DEF First
      <3>2. \A j \in OfKind("wanted") : First(j) => j = i
        BY <2>3 DEF OfKind
      <3>3. \A j \in OfKind("bad") : ~First(j)
        BY <2>1, <2>3 DEF OfKind
      <3> QED
        BY <2>2, <2>4, <3>1, <3>2, <3>3 DEF FirstKeyCorrect
    <2> QED
      BY <2>4, <2>5 DEF Inv, CertsCorrect, KeyCorrect
  <1>8. CASE FirstErr
    <2>1. /\ ~done /\ i <= length /\ file[i] = "bad"
          /\ loader = "first_key"
          /\ Return("bad_pem", {})
      BY <1>8 DEF FirstErr, Yields
    <2>2. i \in OfKind("bad")
      BY <1>0, <2>1, PassedSome
    <2>3. \A j \in Sections : First(j) /\ file[j] # "other" => j = i
      BY <1>0, <1>t, <2>1, FirstHere, FirstIsOne
    <2>4. /\ TypeOK' /\ LoopInv'
          /\ \A k : OfKind(k)' = OfKind(k)
          /\ result' = "bad_pem" /\ taken' = {}
          /\ loader' = "first_key" /\ file' = file
      BY <2>1, Returns DEF Results
    <2>5. FirstKeyCorrect'
      <3>1. \A j : First(j)' <=> First(j)
        BY <2>4 DEF First
      <3>2. \A j \in OfKind("wanted") : ~First(j)
        BY <2>1, <2>3 DEF OfKind
      <3> QED
        BY <2>2, <2>4, <3>1, <3>2 DEF FirstKeyCorrect
    <2> QED
      BY <2>4, <2>5 DEF Inv, CertsCorrect, KeyCorrect
  <1> QED
    BY <1>1, <1>2, <1>3, <1>4, <1>5, <1>6, <1>7, <1>8 DEF Next

LEMMA InvStutter == Inv /\ UNCHANGED vars => Inv'
  <1> SUFFICES ASSUME Inv, UNCHANGED vars PROVE Inv'
    OBVIOUS
  <1>1. /\ \A k : Passed(k)' = Passed(k) /\ OfKind(k)' = OfKind(k)
        /\ Sections' = Sections
    BY DEF vars, Passed, OfKind, Sections
  <1>2. TypeOK'
    BY <1>1 DEF vars, Inv, TypeOK
  <1>3. LoopInv'
    BY <1>1 DEF vars, Inv, LoopInv
  <1>4. CertsCorrect' /\ KeyCorrect'
    BY <1>1 DEF vars, Inv, CertsCorrect, KeyCorrect
  <1>5. FirstKeyCorrect'
    BY <1>1 DEF vars, Inv, FirstKeyCorrect, First
  <1> QED
    BY <1>2, <1>3, <1>4, <1>5 DEF Inv

(* The loop invariant holds for every file and every loader.               *)
THEOREM InvAlways == Spec => []Inv
  BY InvInit, InvNext, InvStutter, PTL DEF Spec

(* private_key_from_pem returns a key exactly when the file has one and    *)
(* only one, in whatever order its sections come and whatever else is in   *)
(* it, and otherwise the error that says why.                              *)
THEOREM KeyLoaderCorrect == Spec => []KeyCorrect
  <1>1. Inv => KeyCorrect
    BY DEF Inv
  <1> QED
    BY <1>1, InvAlways, PTL

(* certificates_from_pem returns all certificates of the file or none.     *)
THEOREM CertLoaderCorrect == Spec => []CertsCorrect
  <1>1. Inv => CertsCorrect
    BY DEF Inv
  <1> QED
    BY <1>1, InvAlways, PTL

(* The chain-file loader returns the first key exactly when every section  *)
(* before it could be read, and otherwise the error that says why.         *)
THEOREM FirstKeyLoaderCorrect == Spec => []FirstKeyCorrect
  <1>1. Inv => FirstKeyCorrect
    BY DEF Inv
  <1> QED
    BY <1>1, InvAlways, PTL
=============================================================================
