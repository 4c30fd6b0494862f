------------------------------ MODULE Retcodes ------------------------------
(***************************************************************************)
(* The classification of MT5 trade-server return codes in app/retcodes.py  *)
(* and the HTTP answers app/errors.py derives from it.                     *)
(***************************************************************************)
EXTENDS Integers

SuccessCodes == {10008, 10009, 10010}

RetryableCodes == {10004, 10020, 10021, 10024}

AmbiguousCodes == {10012, 10031}

PermanentCodes ==
    {10006, 10007, 10011, 10022, 10023} \cup 10013..10019 \cup 10025..10030
        \cup 10032..10036 \cup {10038, 10039}

\* A code that no table lists proves nothing about the order.
ClassifyUnknownAsRejected(code) ==
    IF code \in SuccessCodes THEN "success"
    ELSE IF code \in RetryableCodes THEN "retryable"
    ELSE IF code \in AmbiguousCodes THEN "ambiguous" ELSE "permanent"
ClassifyRetcode(code) ==
    IF code \in SuccessCodes THEN "success"
    ELSE IF code \in RetryableCodes THEN "retryable"
    ELSE IF code \in PermanentCodes THEN "permanent" ELSE "ambiguous"

\* mt5_error_response, by error_type; a success answers 200.
AnswerFor(code) ==
    LET class == ClassifyRetcode(code)
    IN  IF class = "success" THEN "ok"
        ELSE IF class = "retryable" THEN "retryable"
        ELSE IF class = "ambiguous" THEN "unknown_outcome" ELSE "mt5_rejected"

\* What the trade server did, as MT5 documents its codes: done, refused, or
\* nobody knows.
ServerPlaced(code) == code \in SuccessCodes
ServerRefused(code) == code \in RetryableCodes \cup PermanentCodes
=============================================================================
