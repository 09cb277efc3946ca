------------------------------- MODULE Surfaces -------------------------------
(***************************************************************************)
(* What a failure looks like from outside: the exception hierarchy of      *)
(* core/exceptions.py and generation/generator.py, and its three renderers *)
(* -- the HTTP handlers (api/errors.py), the terminal event of a stream    *)
(* (api/query.py) and a tool result (mcp_servers/common.py).               *)
(*                                                                         *)
(* A message is abstracted to its author: "own" is the exception's text,   *)
(* "fixed" one that names no identifier, "generic" the same for all.       *)
(***************************************************************************)
EXTENDS Naturals, Sequences, FiniteSets

(* The class each class extends.  DriverError is any error of psycopg's     *)
(* that nothing translates, a lost or refused connection among them.        *)
Parent ==
    [ConfigurationError          |-> "TextToSQLError",
     LLMError                    |-> "TextToSQLError",
     LLMUnavailableError         |-> "LLMError",
     LLMQuotaExceededError       |-> "LLMUnavailableError",
     LLMResponseError            |-> "LLMError",
     UnanswerableQuestionError   |-> "LLMResponseError",
     RetrievalError              |-> "TextToSQLError",
     EmbeddingModelMismatchError |-> "RetrievalError",
     SQLValidationError          |-> "TextToSQLError",
     ExecutionError              |-> "TextToSQLError",
     StatementTimeoutError       |-> "ExecutionError",
     PermissionDeniedError       |-> "ExecutionError",
     ProfilingError              |-> "TextToSQLError",
     UnknownTableError           |-> "ProfilingError",
     TextToSQLError              |-> "Exception",
     ValueError                  |-> "Exception",
     DriverError                 |-> "Exception"]

Classes == DOMAIN Parent

(* A class and everything it extends. *)
Line[class \in Classes] ==
    {class} \cup (IF Parent[class] \in Classes THEN Line[Parent[class]] ELSE {"Exception"})

IsInstance(class, base) == base \in Line[class]

(* A chain of `if isinstance(...): return`: the first base that fits. *)
FirstMatch(rules, class, otherwise) ==
    LET fits == {i \in DOMAIN rules : IsInstance(class, rules[i][1])} IN
    IF fits = {} THEN otherwise
    ELSE rules[CHOOSE i \in fits : \A j \in fits : i <= j][2]

-------------------------------------------------------------------------------
(* The HTTP side. *)

CodeFor(class) ==
    FirstMatch(<< <<"StatementTimeoutError", "query_timeout">>,
                  <<"PermissionDeniedError", "sql_validation_failed">>,
                  <<"SQLValidationError", "sql_validation_failed">>,
                  <<"LLMQuotaExceededError", "rate_limited">>,
                  <<"LLMError", "llm_unavailable">>,
                  <<"RetrievalError", "ambiguous_question">>,
                  <<"ConfigurationError", "internal_error">> >>, class, "internal_error")

Status ==
    [query_timeout |-> 408, sql_validation_failed |-> 422, ambiguous_question |-> 422,
     rate_limited |-> 429, internal_error |-> 500, llm_unavailable |-> 502]

Published(class) ==
    [code |-> CodeFor(class),
     message |-> IF CodeFor(class) = "internal_error" THEN "generic" ELSE "own"]

Unhandled == [code |-> "internal_error", message |-> "generic"]
Rejected == [code |-> "sql_validation_failed", message |-> "fixed"]

(* The route catches a rejected query and raises an ApiError in its place;  *)
(* everything else reaches the handlers that install() registered.          *)
PlainAnswer(class) ==
    IF IsInstance(class, "SQLValidationError") THEN Rejected
    ELSE IF IsInstance(class, "TextToSQLError") THEN Published(class)
    ELSE Unhandled

(* The except clauses of _produce, in a response that has begun: the first  *)
(* that fits.                                                               *)
StreamAnswer(class) ==
    FirstMatch(<< <<"SQLValidationError", Rejected>>,
                  <<"TextToSQLError", Published(class)>> >>, class, Unhandled)

-------------------------------------------------------------------------------
(* The MCP side.  A validation error carries an error_type of its own. *)

(* Mutant: the base of the failures of a run before those that extend it. *)
ErrorTypeBaseFirst(class, own) ==
    FirstMatch(<< <<"ExecutionError", "execution_failed">>,
                  <<"StatementTimeoutError", "statement_timeout">>,
                  <<"PermissionDeniedError", "permission_denied">>,
                  <<"UnknownTableError", "table_not_found">>,
                  <<"SQLValidationError", own>>,
                  <<"EmbeddingModelMismatchError", "connection_failed">>,
                  <<"ProfilingError", "invalid_arguments">>,
                  <<"RetrievalError", "invalid_arguments">> >>, class, "internal_error")

ErrorType(class, own) ==
    FirstMatch(<< <<"StatementTimeoutError", "statement_timeout">>,
                  <<"PermissionDeniedError", "permission_denied">>,
                  <<"UnknownTableError", "table_not_found">>,
                  <<"SQLValidationError", own>>,
                  <<"EmbeddingModelMismatchError", "connection_failed">>,
                  <<"ProfilingError", "invalid_arguments">>,
                  <<"RetrievalError", "invalid_arguments">>,
                  <<"ExecutionError", "execution_failed">> >>, class, "internal_error")

ErrorPayload(class, own) ==
    [ok |-> FALSE, error_type |-> ErrorType(class, own), message |-> "own"]

(* _dispatch of a known tool: its arguments fit the schema or not, and the  *)
(* handler returns or raises ("none").                                      *)
Dispatch(fits, class, own) ==
    IF ~fits THEN [ok |-> FALSE, error_type |-> "invalid_arguments", message |-> "fixed"]
    ELSE IF class = "none" THEN [ok |-> TRUE, error_type |-> "none", message |-> "none"]
    ELSE IF IsInstance(class, "TextToSQLError") THEN ErrorPayload(class, own)
    ELSE [ok |-> FALSE, error_type |-> "internal_error", message |-> "generic"]

(* to_call_result *)
CallResult(payload) == [payload |-> payload, isError |-> ~payload.ok]

-------------------------------------------------------------------------------
(* The error table of docs/architecture/API.md, by the class it is about:   *)
(* 503 is for a PostgreSQL that cannot be reached.                          *)
Documented ==
    [StatementTimeoutError |-> "query_timeout",
     PermissionDeniedError |-> "sql_validation_failed",
     SQLValidationError    |-> "sql_validation_failed",
     LLMQuotaExceededError |-> "rate_limited",
     LLMError              |-> "llm_unavailable",
     RetrievalError        |-> "ambiguous_question",
     TextToSQLError        |-> "internal_error",
     DriverError           |-> "database_unavailable"]

(* The entry for the nearest class that has one. *)
NearestCode(class) ==
    LET listed == Line[class] \cap DOMAIN Documented IN
    IF listed = {} THEN "internal_error"
    ELSE Documented[CHOOSE c \in listed : \A d \in listed : d \in Line[c]]

(* The error_type values of docs/architecture/MCP.md, section 6, that a     *)
(* rejected query carries.                                                  *)
RejectionTypes ==
    {"syntax_error", "multiple_statements", "not_read_only", "table_not_found",
     "unknown_identifier", "permission_denied", "statement_timeout", "explain_failed"}

(* A code and an error_type that name one cause.  The tools call no model,  *)
(* and only they say which argument was wrong.                              *)
SameCause ==
    {<<"query_timeout", "statement_timeout">>, <<"sql_validation_failed", "permission_denied">>}
      \cup {"sql_validation_failed"} \X RejectionTypes
      \cup {"ambiguous_question"} \X {"invalid_arguments", "connection_failed"}
      \cup {"rate_limited", "llm_unavailable"} \X {"internal_error"}
      \cup {"internal_error"} \X {"internal_error", "execution_failed", "invalid_arguments",
                                   "table_not_found"}
===============================================================================
