------------------------------ MODULE ErrorKinds ------------------------------
(***************************************************************************)
(* The error envelope of pkg/errors and its two translations: to a gRPC    *)
(* status and to a GraphQL error.  An error is the sequence of its links,  *)
(* outermost first: each is an envelope, named by its kind, or "plain",    *)
(* an error of another type (fmt.Errorf, a driver's).  No error is <<>>.   *)
(***************************************************************************)
EXTENDS Sequences, FiniteSetsExt

Kind == {"invalid", "notFound", "conflict", "unauthorized", "forbidden", "internal"}
Link == Kind \cup {"plain"}

Envelopes(err) == {i \in DOMAIN err : err[i] # "plain"}

\* Mutant of As: the innermost envelope decides.
AsInnermost(err) == IF Envelopes(err) = {} THEN "none" ELSE err[Max(Envelopes(err))]

\* The kind of the outermost envelope of an error, "none" without one.
As(err) == IF Envelopes(err) = {} THEN "none" ELSE err[Min(Envelopes(err))]

IsKind(err, kind) == As(err) = kind

\* What a layer adds to an error that it hands up: fmt.Errorf, or an envelope.
Wrap(link, err) == <<link>> \o err

\* What a client reads: a code, and the message of the envelope or a generic one.
Says(code, text) == [code |-> code, text |-> text]

\* The gRPC adapter.
ToStatus(err) ==
    CASE err = <<>> -> Says("OK", "none")
      [] IsKind(err, "invalid") -> Says("InvalidArgument", "message")
      [] IsKind(err, "notFound") -> Says("NotFound", "message")
      [] IsKind(err, "conflict") -> Says("AlreadyExists", "message")
      [] IsKind(err, "unauthorized") -> Says("Unauthenticated", "message")
      [] IsKind(err, "forbidden") -> Says("PermissionDenied", "message")
      [] OTHER -> Says("Internal", "generic")

\* Mutant of ToGraphQLError: a kind forgotten in the switch.
ToGraphQLErrorNoConflict(err) ==
    CASE IsKind(err, "invalid") -> Says("INVALID", "message")
      [] IsKind(err, "notFound") -> Says("NOT_FOUND", "message")
      [] IsKind(err, "unauthorized") -> Says("UNAUTHORIZED", "message")
      [] IsKind(err, "forbidden") -> Says("FORBIDDEN", "message")
      [] OTHER -> Says("INTERNAL", "generic")

\* The GraphQL adapter: the code is an extension of the error.
ToGraphQLError(err) ==
    CASE IsKind(err, "invalid") -> Says("INVALID", "message")
      [] IsKind(err, "notFound") -> Says("NOT_FOUND", "message")
      [] IsKind(err, "conflict") -> Says("CONFLICT", "message")
      [] IsKind(err, "unauthorized") -> Says("UNAUTHORIZED", "message")
      [] IsKind(err, "forbidden") -> Says("FORBIDDEN", "message")
      [] OTHER -> Says("INTERNAL", "generic")
=============================================================================
