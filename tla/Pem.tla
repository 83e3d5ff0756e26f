-------------------------------- MODULE Pem ---------------------------------
(***************************************************************************)
(* src/src/tls_rustls/mod.rs: what the loaders make of the sections of a   *)
(* PEM file.  certificates_from_pem collects every certificate and stops   *)
(* at the first error; private_key_from_pem reads on past errors and wants *)
(* exactly one key; config_from_pem_chain_file takes the first key.        *)
(*                                                                         *)
(* pem_slice_iter is external: it passes over sections of another kind and *)
(* yields, in order, an Ok for a section of the wanted kind and an Err for *)
(* one it cannot read.                                                     *)
(***************************************************************************)
EXTENDS Naturals

CONSTANT MaxSections   \* bound: sections of a file

ASSUME SectionsAssumption == MaxSections \in Nat

VARIABLES loader,   \* which function runs
          length,   \* number of sections of the file
          file,     \* the kind of each section, as the iterator sees it
          i,        \* the section the iterator is at
          result,   \* key_result, or what has been collected
          taken,    \* the sections result holds
          done      \* the function has returned result

vars == <<loader, length, file, i, result, taken, done>>

Loaders == {"certificates", "private_key", "first_key"}
Kinds == {"wanted", "other", "bad"}
Results == {"ok", "no_keys", "bad_pem", "multiple"}
Sections == 1..length

TypeOK ==
    /\ loader \in Loaders
    /\ length \in 0..MaxSections
    /\ file \in [Sections -> Kinds]
    /\ i \in 1..(length + 1)
    /\ result \in Results
    /\ taken \subseteq Sections
    /\ done \in BOOLEAN

(* collect() starts from an empty Vec, key_result from the error "The      *)
(* private key file contained no keys".                                    *)
Init ==
    /\ loader \in Loaders
    /\ length \in 0..MaxSections
    /\ file \in [Sections -> Kinds]
    /\ i = 1
    /\ result = IF loader = "certificates" THEN "ok" ELSE "no_keys"
    /\ taken = {}
    /\ done = FALSE
-----------------------------------------------------------------------------
Input == UNCHANGED <<loader, length, file>>

(* The iterator yields an item of kind k to function f.                    *)
Yields(f, k) ==
    /\ ~done
    /\ loader = f
    /\ i <= length
    /\ file[i] = k

Continue(r, t) ==
    /\ i' = i + 1
    /\ result' = r
    /\ taken' = t
    /\ UNCHANGED done
    /\ Input

Return(r, t) ==
    /\ done' = TRUE
    /\ result' = r
    /\ taken' = t
    /\ UNCHANGED i
    /\ Input

Skip == \E f \in Loaders : Yields(f, "other") /\ Continue(result, taken)

(* Nothing more to yield: the function returns what it has.                *)
Exhausted ==
    /\ ~done
    /\ i > length
    /\ Return(result, taken)

(* certificates_from_pem: collect::<Result<Vec<_>, _>>().                  *)
CertOk == Yields("certificates", "wanted") /\ Continue("ok", taken \cup {i})

(* Mutant: an unreadable section is left out.                              *)
CertErrSkipped == Yields("certificates", "bad") /\ Continue(result, taken)

CertErr == Yields("certificates", "bad") /\ Return("bad_pem", {})

(* private_key_from_pem: with a key in hand, another one is an error that  *)
(* returns, and what cannot be read is passed over; without one, whatever  *)
(* comes replaces the error.                                               *)
KeyOk ==
    /\ Yields("private_key", "wanted")
    /\ IF result = "ok" THEN Return("multiple", {})
                        ELSE Continue("ok", {i})

(* Mutant: a later error replaces the key.                                 *)
KeyErrReplaces == Yields("private_key", "bad") /\ Continue("bad_pem", {})

KeyErr ==
    /\ Yields("private_key", "bad")
    /\ IF result = "ok" THEN Continue(result, taken)
                        ELSE Continue("bad_pem", {})

(* PrivateKeyDer::from_pem_slice: the iterator's first item, or an error.  *)
FirstOk == Yields("first_key", "wanted") /\ Return("ok", {i})

(* Mutant: an unreadable section before the key is passed over.            *)
FirstErrSkipped == Yields("first_key", "bad") /\ Continue(result, taken)

FirstErr == Yields("first_key", "bad") /\ Return("bad_pem", {})

Next == \/ Skip \/ Exhausted \/ CertOk \/ CertErr
        \/ KeyOk \/ KeyErr \/ FirstOk \/ FirstErr

Spec == Init /\ [][Next]_vars
-----------------------------------------------------------------------------
OfKind(k) == {j \in Sections : file[j] = k}

(* What is taken is exactly the wanted sections, or nothing when one       *)
(* section cannot be read: no chain is served with a hole in it.           *)
CertsCorrect ==
    done /\ loader = "certificates" =>
        IF OfKind("bad") = {} THEN result = "ok" /\ taken = OfKind("wanted")
                              ELSE result = "bad_pem" /\ taken = {}

(* The key is found wherever it is ("Check the entire PEM file for the key *)
(* in case it is not first section"), two are refused wherever they are,   *)
(* and the order of sections makes no difference.                          *)
KeyCorrect ==
    done /\ loader = "private_key" =>
        /\ (\E j, k \in OfKind("wanted") : j # k) => result = "multiple" /\ taken = {}
        /\ \A j \in Sections :
            OfKind("wanted") = {j} => result = "ok" /\ taken = {j}
        /\ OfKind("wanted") = {} =>
            /\ taken = {}
            /\ result = IF OfKind("bad") = {} THEN "no_keys" ELSE "bad_pem"

(* The chain-file loader returns the first key exactly when nothing that   *)
(* cannot be read comes before it, whatever comes after, and otherwise the *)
(* error of the section that could not be read, or that there is no key.   *)
First(j) == \A k \in 1..(j - 1) : file[k] = "other"

FirstKeyCorrect ==
    done /\ loader = "first_key" =>
        /\ \A j \in OfKind("wanted") : First(j) => result = "ok" /\ taken = {j}
        /\ \A j \in OfKind("bad") : First(j) => result = "bad_pem" /\ taken = {}
        /\ OfKind("wanted") \cup OfKind("bad") = {} => result = "no_keys" /\ taken = {}

(* The loop invariant: what the result is for the sections passed so far.  *)
Passed(k) == {j \in 1..(i - 1) : file[j] = k}

LoopInv ==
    ~done =>
        /\ loader = "certificates" =>
            /\ result = "ok"
            /\ taken = Passed("wanted")
            /\ Passed("bad") = {}
        /\ loader = "private_key" =>
            /\ taken = Passed("wanted")
            /\ \A j, k \in Passed("wanted") : j = k
            /\ Passed("wanted") # {} <=> result = "ok"
            /\ Passed("wanted") = {} =>
                result = IF Passed("bad") = {} THEN "no_keys" ELSE "bad_pem"
        /\ loader = "first_key" =>
            /\ result = "no_keys"
            /\ taken = {}
            /\ Passed("wanted") = {}
            /\ Passed("bad") = {}

Inv == TypeOK /\ LoopInv /\ CertsCorrect /\ KeyCorrect /\ FirstKeyCorrect
=============================================================================
