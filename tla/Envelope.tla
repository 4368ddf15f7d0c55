------------------------------ MODULE Envelope ------------------------------
(***************************************************************************)
(* The response-envelope contract of webv3/lib/api/client.ts, shared by   *)
(* the client and by the resource modules that post-process its result.   *)
(* A body is a record [kind, code, data]: kind "env" is an object with     *)
(* both "code" and "data" keys, "raw" any other JSON value or a text body, *)
(* "badjson" a JSON content-type that response.json() cannot parse.        *)
(***************************************************************************)
EXTENDS Integers

(* response.ok: the status is in the range 200-299.                        *)
IsOk(status) == status >= 200 /\ status <= 299

(* The default response interceptor: an envelope whose code is neither 0  *)
(* nor 200 throws an ApiError with that code; otherwise only its "data"   *)
(* is returned. Any other body passes through unchanged.                  *)
EnvelopeFails(b) == b.kind = "env" /\ b.code \notin {0, 200}

UnwrapEnvelope(b) == IF b.kind = "env" THEN b.data ELSE b

====
