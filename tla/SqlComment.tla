----------------------------- MODULE SqlComment ------------------------------
(***************************************************************************)
(* How a trace context gets from a comment in a statement's text to the    *)
(* root context (otel_api/otel.c): find_block_comment,                     *)
(* extract_traceparent_from_comment and                                    *)
(* otel_try_apply_sqlcommenter_context, on top of RootContext.             *)
(*                                                                         *)
(* A text is a sequence of tokens: one character each, except a key and a  *)
(* traceparent, which is a context or its percent-encoded form.  Texts are *)
(* what a client makes of a statement and the lists it puts in comments,   *)
(* so that what is read can be compared with what was meant.  Definitions  *)
(* whose names end in _m are faulty variants that no specification uses.   *)
(***************************************************************************)
EXTENDS RootContext, Sequences, FiniteSets, SequencesExt

CONSTANTS
    Encoded,                        \* percent-encoded forms of contexts
    Decode,                         \* the contexts they stand for
    BadEscape,                      \* a malformed escape
    Statements,                     \* statements that clients send
    OTEL_SQLCOMMENTER_SCAN_BUDGET

ASSUME SqlCommentAssumption ==
    /\ Decode \in [Encoded -> Ctx]
    /\ BadEscape \notin Encoded \union Ctx
    /\ OTEL_SQLCOMMENTER_SCAN_BUDGET \in Nat

VARIABLE sql        \* the statement that is being read

Whitespace  == {" ", "newline"}
TRACEPARENT == "traceparent"

(* A list is a sequence of pairs; a key without a value has val = Bare.    *)
(* lead and trail hold the list of the comment before and after the code,  *)
(* if there is one.                                                        *)
Bare  == <<"=">>
NoSql == [lead |-> <<>>, code |-> <<>>, trail |-> <<>>, ending |-> <<>>]

-----------------------------------------------------------------------------
(* The client's side (sqlcommenter).                                       *)

PairText(p) ==
    IF p.val = Bare THEN <<" ", p.key>>
    ELSE <<" ", p.key, "=", "'">> \o p.val \o <<"'">>

CommentText(list) ==
    LET text(t, p) == t \o (IF t = <<>> THEN <<>> ELSE <<",">>) \o PairText(p)
    IN <<"/", "*">> \o FoldLeft(text, <<>>, list) \o <<"*", "/">>

Text(s) ==
    LET comment(maybe) == IF maybe = <<>> THEN <<>> ELSE CommentText(maybe[1])
    IN <<"newline">> \o comment(s.lead) \o s.code \o comment(s.trail) \o s.ending

(* The context a list carries: that of its first traceparent, if valid.    *)
ContextOf(list) ==
    LET at  == {k \in 1..Len(list) :
                  list[k].key = TRACEPARENT /\ list[k].val # Bare}
        val == list[Min(at)].val
    IN CASE at = {}                               -> None
         [] at # {} /\ val \in {<<c>> : c \in Ctx} -> val[1]
         [] at # {} /\ val \in {<<e>> : e \in Encoded} -> Decode[val[1]]
         [] OTHER                                 -> None

(* The context a statement is meant to have: its first comment's.  A       *)
(* comment at the end must be within the scanner's reach.                  *)
Meant(s) ==
    CASE s.lead # <<>> -> ContextOf(s.lead[1])
      [] /\ s.lead = <<>> /\ s.trail # <<>>
         /\ Len(CommentText(s.trail[1])) <= OTEL_SQLCOMMENTER_SCAN_BUDGET
                      -> ContextOf(s.trail[1])
      [] OTHER         -> None

-----------------------------------------------------------------------------
(* The server's side.                                                      *)

(* The least element that is in S, past when there is none.                *)
First(S, past) == Min(S \union {past})

(* Where a comment that ends the text begins.                              *)
Opening_m(S) == Min(S)
Opening(S)   == Max(S)

(* The interior of the comment, in a sequence that is empty when there is  *)
(* none.  An opening that shares its asterisk with the end gives an empty  *)
(* one: the code's bodylen is then -1, and its scan ends at once.          *)
find_block_comment(t) ==
    LET Is(a, b, k) == k \in 1..(Len(t) - 1) /\ t[k] = a /\ t[k + 1] = b
        start  == First({k \in 1..Len(t) : t[k] \notin Whitespace}, Len(t) + 1)
        closes == {k \in (start + 2)..Len(t) : Is("*", "/", k)}
        end    == Max({k \in 1..Len(t) : t[k] \notin Whitespace \union {";"}}
                        \union {0})
        opens  == {k \in 1..(end - 2) : Is("/", "*", k)
                                        /\ k + OTEL_SQLCOMMENTER_SCAN_BUDGET > end}
    IN CASE Is("/", "*", start) /\ closes # {} ->
              <<SubSeq(t, start + 2, Min(closes) - 1)>>
         [] /\ ~(Is("/", "*", start) /\ closes # {})
            /\ end >= 4 /\ Is("*", "/", end - 1) /\ opens # {} ->
              <<SubSeq(t, Opening(opens) + 2, end - 2)>>
         [] OTHER -> <<>>

(* decode_percent_escape over the value, into a buffer that holds one      *)
(* traceparent, then otel_traceparent_parse.                               *)
Parsed(val) ==
    LET out == [k \in 1..Len(val) |->
                  IF val[k] \in Encoded THEN Decode[val[k]] ELSE val[k]]
    IN IF BadEscape \notin ToSet(val) /\ Len(out) = 1 /\ out[1] \in Ctx
       THEN out[1] ELSE None

(* extract_traceparent_from_comment: from[p] is what the loop finds when   *)
(* it has got to p.                                                        *)
extract_traceparent(b) ==
    LET n == Len(b)
        find(T, p) == First({k \in p..n : b[k] \in T}, n + 1)
        next(p)    == First({find({","}, p) + 1}, n + 1)
        from[p \in 1..(n + 1)] ==
          LET key == First({k \in p..n : b[k] # " "}, n + 1)
              eq  == find({"=", ","}, key)
              val == eq + 2
              end == find({"'"}, val)
          IN CASE key > n                          -> None
               [] key <= n /\ (eq > n \/ b[eq] # "=") -> from[next(eq)]
               [] /\ eq <= n /\ b[eq] = "="
                  /\ eq < n /\ b[eq + 1] = "'" /\ end <= n ->
                    IF SubSeq(b, key, eq - 1) = <<TRACEPARENT>>
                    THEN Parsed(SubSeq(b, val, end - 1))
                    ELSE from[next(end + 1)]
               [] OTHER                            -> None
    IN from[1]

Extracted(t) ==
    LET body == find_block_comment(t)
    IN IF body = <<>> THEN None ELSE extract_traceparent(body[1])

(* A statement starts with otel_api.parse_sqlcommenter on.                 *)
ReadStatement(s) ==
    /\ sql = NoSql
    /\ root_ctx' = Commented(root_ctx, Extracted(Text(s)))
    /\ sql' = s
    /\ ready' = FALSE
    /\ UNCHANGED <<guc, undo, otel_ctx_from_M_header, in_xact, m_seen>>

StatementRuns ==
    /\ sql # NoSql
    /\ sql' = NoSql
    /\ UNCHANGED rcVars

CommentInit == Init /\ sql = NoSql

CommentNext ==
    \/ \E s \in Statements : ReadStatement(s)
    \/ StatementRuns
    \/ /\ MessageM \/ Begin \/ SetStatement \/ StatementEnds \/ EndXact
          \/ ReadyForQuery
       /\ sql = NoSql /\ UNCHANGED sql

CommentSpec == CommentInit /\ [][CommentNext]_<<rcVars, sql>>

-----------------------------------------------------------------------------
(* Properties.                                                             *)

(* A statement that finds no context gets the one its first comment was    *)
(* meant to carry, whatever else is in the list, in its values and in the  *)
(* statement: literals that look like comments, keys without values,       *)
(* commas in values, malformed escapes; and it gets none otherwise.        *)
CommentIsRead ==
    [][sql' # NoSql /\ ~root_ctx.is_set
        => root_ctx'.ctx = Meant(sql')]_<<rcVars, sql>>

-----------------------------------------------------------------------------
(* What comments of the code say and the code does not do: the statement   *)
(* below does not hold of this model.                                      *)

(* "key=value pairs inside a SQL block comment at the start OR end of the  *)
(* query": a list at the end is read also after a comment at the start.    *)
EitherCommentIsRead ==
    [][sql' # NoSql /\ ~root_ctx.is_set
        => \A maybe \in {sql'.lead, sql'.trail} :
             maybe # <<>> /\ ContextOf(maybe[1]) # None => root_ctx'.is_set]_<<rcVars, sql>>
=============================================================================
