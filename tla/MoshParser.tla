----------------------------- MODULE MoshParser -----------------------------
(***************************************************************************)
(* How bytes from the host become functions of the terminal: the UTF-8     *)
(* decoder and the X3.64 state machine of mosh (parser.cc, parserstate.cc) *)
(* and the buffers of the Dispatcher (terminaldispatcher.cc).  Bytes and   *)
(* characters are numbers.  A function is a token: its type, the           *)
(* characters that name it, and its parameters, -1 for an empty one.       *)
(***************************************************************************)
EXTENDS Integers, Sequences, SequencesExt, FiniteSets, FiniteSetsExt

CONSTANTS
  ParamLimit,     \* 100 characters of parameters
  CollectLimit,   \* 8 characters of a name
  OscLimit,       \* MAXIMUM_CLIPBOARD_SIZE
  EarlyCheck,     \* does mbrtowc refuse a sequence before its last byte?
  Bytes,          \* the bytes the host may send
  Frames,         \* tokens the display writes (see Understood)
  UserBytes, MaxUserBytes   \* the bytes the user types, and how many

ASSUME ParserAssumption ==
  /\ {ParamLimit, CollectLimit, OscLimit} \subseteq Nat \ {0}
  /\ EarlyCheck \in BOOLEAN
  /\ Bytes \subseteq 0..255 /\ UserBytes \subseteq 0..255 /\ MaxUserBytes \in Nat

VARIABLES
  parser,   \* the decoder, the state machine and the dispatcher's buffers
  user      \* UserInput, with the bytes typed and the bytes sent to the host

PARAM_MAX == 65535
Replacement == 65533           \* U+FFFD
Incomplete == -2
Invalid == -1

(***************************************************************************)
(* The state machine: for each state its rules, of which the first that    *)
(* matches a character applies.  Stay is a rule without a next state.      *)
(***************************************************************************)
Stay == "Stay"
rule(chars, action, next) == [chars |-> chars, action |-> action, next |-> next]

C0_prime == 0..23 \union {25} \union 28..31
GLGR == 32..127 \union 160..255
Intermediates == 32..47
ParamChars == 48..57 \union {59}
Finals == 64..126

anywhere_rule ==
  <<rule({24, 26} \union 128..143 \union 145..151 \union {153, 154}, "Execute", "Ground"),
    rule({156}, "Ignore", "Ground"), rule({27}, "Ignore", "Escape"),
    rule({152, 158, 159}, "Ignore", "SOS_PM_APC_String"), rule({144}, "Ignore", "DCS_Entry"),
    rule({157}, "Ignore", "OSC_String"), rule({155}, "Ignore", "CSI_Entry")>>

execute == rule(C0_prime, "Execute", Stay)

GroundRule == <<execute, rule(GLGR, "Print", Stay)>>
EscapeRule ==
  <<execute, rule(Intermediates, "Collect", "Escape_Intermediate"),
    rule(48..126 \ {80, 88, 91, 93, 94, 95}, "Esc_Dispatch", "Ground"),
    rule({91}, "Ignore", "CSI_Entry"), rule({93}, "Ignore", "OSC_String"),
    rule({80}, "Ignore", "DCS_Entry"), rule({88, 94, 95}, "Ignore", "SOS_PM_APC_String")>>
EscapeIntermediateRule ==
  <<execute, rule(Intermediates, "Collect", Stay), rule(48..126, "Esc_Dispatch", "Ground")>>
CSIEntryRule ==
  <<execute, rule(Finals, "CSI_Dispatch", "Ground"), rule(ParamChars, "Param", "CSI_Param"),
    rule(60..63, "Collect", "CSI_Param"), rule({58}, "Ignore", "CSI_Ignore"),
    rule(Intermediates, "Collect", "CSI_Intermediate")>>
CSIParamRule ==
  <<execute, rule(ParamChars, "Param", Stay), rule({58} \union 60..63, "Ignore", "CSI_Ignore"),
    rule(Intermediates, "Collect", "CSI_Intermediate"), rule(Finals, "CSI_Dispatch", "Ground")>>
CSIIntermediateRule ==
  <<execute, rule(Intermediates, "Collect", Stay), rule(Finals, "CSI_Dispatch", "Ground"),
    rule(48..63, "Ignore", "CSI_Ignore")>>
CSIIgnoreRule == <<execute, rule(Finals, "Ignore", "Ground")>>
DCSEntryRule ==
  <<rule(Intermediates, "Collect", "DCS_Intermediate"), rule({58}, "Ignore", "DCS_Ignore"),
    rule(ParamChars, "Param", "DCS_Param"), rule(60..63, "Collect", "DCS_Param"),
    rule(Finals, "Ignore", "DCS_Passthrough")>>
DCSParamRule ==
  <<rule(ParamChars, "Param", Stay), rule({58} \union 60..63, "Ignore", "DCS_Ignore"),
    rule(Intermediates, "Collect", "DCS_Intermediate"), rule(Finals, "Ignore", "DCS_Passthrough")>>
DCSIntermediateRule ==
  <<rule(Intermediates, "Collect", Stay), rule(Finals, "Ignore", "DCS_Passthrough"),
    rule(48..63, "Ignore", "DCS_Ignore")>>
DCSIgnoreRule == <<>>        \* and DCS_Passthrough: Put has no effect on the terminal
OSCStringRule == <<rule(32..127, "OSC_Put", Stay), rule({7}, "Ignore", "Ground")>>
StringRule == <<>>           \* SOS, PM and APC strings are skipped

input_state_rule ==
  [Ground |-> GroundRule, Escape |-> EscapeRule, Escape_Intermediate |-> EscapeIntermediateRule,
   CSI_Entry |-> CSIEntryRule, CSI_Param |-> CSIParamRule, CSI_Intermediate |-> CSIIntermediateRule,
   CSI_Ignore |-> CSIIgnoreRule, DCS_Entry |-> DCSEntryRule, DCS_Param |-> DCSParamRule,
   DCS_Intermediate |-> DCSIntermediateRule, DCS_Passthrough |-> DCSIgnoreRule,
   DCS_Ignore |-> DCSIgnoreRule, OSC_String |-> OSCStringRule, SOS_PM_APC_String |-> StringRule]

States == DOMAIN input_state_rule

enter(s) == CASE s \in {"Escape", "CSI_Entry", "DCS_Entry"} -> "Clear"
              [] s = "OSC_String" -> "OSC_Start" [] OTHER -> "Ignore"
exit(s) == IF s = "OSC_String" THEN "OSC_End" ELSE "Ignore"

\* State::input: the rules of every state first; a high code point counts as A.
transition(s, ch) ==
  LET plain == IF ch >= 160 THEN 65 ELSE ch
      everywhere == SelectSeq(anywhere_rule, LAMBDA r : ch \in r.chars)
      here == SelectSeq(input_state_rule[s], LAMBDA r : plain \in r.chars)
  IN  CASE everywhere # <<>> -> everywhere[1]
        [] everywhere = <<>> /\ here # <<>> -> here[1]
        [] OTHER -> rule({}, "Ignore", Stay)

\* Parser::input: the actions a character causes, in order.
actions(s, ch) ==
  LET t == transition(s, ch)
  IN  IF t.next = Stay THEN <<t.action>> ELSE <<exit(s), t.action, enter(t.next)>>

(***************************************************************************)
(* The dispatcher's buffers                                                *)
(***************************************************************************)
limited(s, x, limit) == IF Len(s) < limit THEN Append(s, x) ELSE s

newparamchar(p, ch) == [p EXCEPT !.params = limited(@, ch, ParamLimit)]
collect(p, ch) == [p EXCEPT !.dispatch_chars = limited(@, ch, CollectLimit)]
clearNameOnly(p) == [p EXCEPT !.dispatch_chars = <<>>]                   \* a mutant
clear(p) == [p EXCEPT !.params = <<>>, !.dispatch_chars = <<>>]
OSC_start(p) == [p EXCEPT !.OSC_string = <<>>]
OSC_put(p, ch) == [p EXCEPT !.OSC_string = limited(@, ch, OscLimit)]

\* parse_params: the numbers between semicolons, -1 if empty or too large.
number(digits) ==
  LET n == FoldLeft(LAMBDA acc, d : Min({acc * 10 + d - 48, PARAM_MAX + 1}), 0, digits)
  IN  IF digits = <<>> \/ n > PARAM_MAX THEN -1 ELSE n

parse_params(params) ==
  LET step(st, ch) == IF ch = 59 THEN [done |-> Append(st.done, number(st.digits)), digits |-> <<>>]
                      ELSE [st EXCEPT !.digits = Append(@, ch)]
      last == FoldLeft(step, [done |-> <<>>, digits |-> <<>>], params)
  IN  Append(last.done, number(last.digits))

token(type, name, params) == [type |-> type, name |-> name, params |-> params]

\* Esc_dispatch: the 7-bit form of a C1 control, or an escape sequence.
Esc_dispatch(p, ch) ==
  LET name == collect(p, ch).dispatch_chars
  IN  IF p.dispatch_chars = <<>> /\ ch \in 64..95
      THEN [p EXCEPT !.out = Append(@, token("control", <<ch + 64>>, <<>>))]
      ELSE [p EXCEPT !.dispatch_chars = name, !.out = Append(@, token("escape", name, <<>>))]

\* act_on_terminal for the buffers, and the functions it hands on.
perform(p, action, ch) ==
  LET name == collect(p, ch).dispatch_chars
      done(t) == [p EXCEPT !.dispatch_chars = name, !.out = Append(@, t)]
  IN  CASE action = "Print" -> [p EXCEPT !.out = Append(@, token("print", <<ch>>, <<>>))]
        [] action = "Execute" -> [p EXCEPT !.out = Append(@, token("control", <<ch>>, <<>>))]
        [] action = "Clear" -> clear(p)
        [] action = "Param" -> newparamchar(p, ch)
        [] action = "Collect" -> collect(p, ch)
        [] action = "CSI_Dispatch" -> done(token("csi", name, parse_params(p.params)))
        [] action = "Esc_Dispatch" -> Esc_dispatch(p, ch)
        [] action = "OSC_Start" -> OSC_start(p)
        [] action = "OSC_Put" -> OSC_put(p, ch)
        [] action = "OSC_End" -> [p EXCEPT !.out = Append(@, token("osc", p.OSC_string, <<>>))]
        [] OTHER -> p

input(p, ch) ==
  LET t == transition(p.state, ch)
  IN  [FoldLeft(LAMBDA q, a : perform(q, a, ch), p, actions(p.state, ch))
         EXCEPT !.state = IF t.next = Stay THEN @ ELSE t.next]

(***************************************************************************)
(* UTF8Parser                                                              *)
(***************************************************************************)

\* The bytes that may follow a first byte; a library that checks late takes
\* every continuation byte and refuses the whole sequence at its end.
length(b) == CASE b \in 194..223 -> 2 [] b \in 224..239 -> 3 [] b \in 240..244 -> 4 [] OTHER -> 1
second(b) == CASE b = 224 -> 160..191 [] b = 237 -> 128..159 [] b = 240 -> 144..191 [] b = 244 -> 128..143
               [] OTHER -> 128..191

\* mbrtowc of the C library: a character and its length, Invalid or Incomplete.
mbrtowc(buf) ==
  LET n == length(buf[1])
      continues == \A i \in 2..Len(buf) : buf[i] \in 128..191
      wellFormed == Len(buf) >= 2 /\ (EarlyCheck \/ Len(buf) = n) => buf[2] \in second(buf[1])
      lead == IF n = 2 THEN buf[1] % 32 ELSE IF n = 3 THEN buf[1] % 16 ELSE buf[1] % 8
  IN  CASE buf[1] \in 128..193 \union 245..255 -> Invalid
        [] buf[1] < 128 -> buf[1]
        [] buf[1] \in 194..244 /\ ~(continues /\ wellFormed) -> Invalid
        [] buf[1] \in 194..244 /\ continues /\ wellFormed /\ Len(buf) < n -> Incomplete
        [] OTHER -> FoldLeft(LAMBDA acc, b : acc * 64 + (b % 64), lead, Tail(buf))

\* What is outside Unicode, or a surrogate, is replaced.
accepted(c) == IF c > 1114111 \/ c \in 55296..57343 THEN Replacement ELSE c

\* One byte: the decoder accepts a character, keeps an incomplete one, or
\* replaces an invalid one and tries its last byte again on its own.
decode(held, b) ==
  LET buf == Append(held, b)
      c == mbrtowc(buf)
      again == mbrtowc(<<b>>)
  IN  CASE c = Incomplete -> [buf |-> buf, chars |-> <<>>]
        [] c = Invalid /\ held = <<>> -> [buf |-> <<>>, chars |-> <<Replacement>>]
        [] c = Invalid /\ held # <<>> /\ again = Incomplete -> [buf |-> <<b>>, chars |-> <<Replacement>>]
        [] c = Invalid /\ held # <<>> /\ again # Incomplete ->
             [buf |-> <<>>, chars |-> <<Replacement, IF again = Invalid THEN Replacement ELSE again>>]
        [] OTHER -> [buf |-> <<>>, chars |-> <<accepted(c)>>]

byteInput(p, b) ==
  LET d == decode(p.buf, b) IN FoldLeft(input, [p EXCEPT !.buf = d.buf], d.chars)

run(p, bytes) == FoldLeft(byteInput, [p EXCEPT !.out = <<>>], bytes)

(***************************************************************************)
(* UserInput: on the way to the host, ESC O A is ESC [ A while the host    *)
(* has not asked for the application mode of the cursor keys.              *)
(***************************************************************************)
ESC == 27
CapitalO == 79
Bracket == 91

userInput(u, c, application_mode_cursor_keys) ==
  CASE u = "Ground" -> [state |-> IF c = ESC THEN "ESC" ELSE "Ground", out |-> <<c>>]
    [] u = "ESC" -> IF c = CapitalO THEN [state |-> "SS3", out |-> <<>>] ELSE [state |-> "Ground", out |-> <<c>>]
    [] u = "SS3" -> [state |-> "Ground",
                     out |-> IF ~application_mode_cursor_keys /\ c \in 65..68 THEN <<Bracket, c>> ELSE <<CapitalO, c>>]

(***************************************************************************)
(* The two streams: bytes from the host and bytes from the user.           *)
(***************************************************************************)
ParserInit ==
  /\ parser = [buf |-> <<>>, state |-> "Ground", params |-> <<>>, dispatch_chars |-> <<>>,
               OSC_string |-> <<>>, out |-> <<>>]
  /\ user = [state |-> "Ground", typed |-> <<>>, sent |-> <<>>]

\* The tokens in out go to the terminal at once.
HostByte == \E b \in Bytes : parser' = [run(parser, <<b>>) EXCEPT !.out = <<>>] /\ UNCHANGED user

UserByte ==
  /\ Len(user.typed) < MaxUserBytes
  /\ \E c \in UserBytes, application_mode_cursor_keys \in BOOLEAN :
       LET u == userInput(user.state, c, application_mode_cursor_keys)
       IN  user' = [state |-> u.state, typed |-> Append(user.typed, c), sent |-> user.sent \o u.out]
  /\ UNCHANGED parser

ParserNext == HostByte \/ UserByte

(***************************************************************************)
(* Properties.  encode gives the bytes of what terminaldisplay.cc writes.  *)
(***************************************************************************)
digitsOf(n) == IF n < 10 THEN <<48 + n>> ELSE <<48 + (n \div 10), 48 + (n % 10)>>
paramBytes(params) ==
  FoldLeft(LAMBDA acc, i : acc \o (IF i > 1 THEN <<59>> ELSE <<>>)
                               \o (IF params[i] = -1 THEN <<>> ELSE digitsOf(params[i])),
           <<>>, [i \in DOMAIN params |-> i])
isLink(t) == t.type = "osc" /\ t.name[1] = 56
encode(t) ==
  CASE t.type = "csi" /\ Len(t.name) = 1 -> <<27, 91>> \o paramBytes(t.params) \o t.name
    [] t.type = "csi" /\ Len(t.name) = 2 -> <<27, 91, t.name[1]>> \o paramBytes(t.params) \o <<t.name[2]>>
    [] t.type = "osc" /\ ~isLink(t) -> <<27, 93>> \o t.name \o <<7>>
    [] isLink(t) -> <<27, 93>> \o t.name \o <<27, 92>>

\* The commands it is to the receiver: ESC \ is the control character 0x9C.
commands(t) == IF isLink(t) THEN <<t, token("control", <<156>>, <<>>)>> ELSE <<t>>

\* The type invariant, with the limits of the dispatcher's buffers: a host
\* that never ends a sequence cannot make them grow.
ParserTypeOK ==
  /\ parser.state \in States
  /\ Len(parser.params) <= ParamLimit /\ Len(parser.dispatch_chars) <= CollectLimit
  /\ Len(parser.OSC_string) <= OscLimit
  /\ user.state \in {"Ground", "ESC", "SS3"}

\* UTF8Parser::input asserts room in its buffer of 8 bytes and keeps only
\* what may still become a character: after any bytes it holds at most three,
\* and they are the beginning of a sequence.
BufferFits == Len(parser.buf) <= 3 /\ (parser.buf # <<>> => mbrtowc(parser.buf) = Incomplete)

\* Recovery: wherever the bytes so far have left the decoder and the state
\* machine (inside a character, a parameter, a string), a control sequence of
\* a frame that comes next is carried out exactly and leaves them at rest.
Understood ==
  \A t \in Frames :
    LET after == run(parser, encode(t))
    IN  IsSuffix(commands(t), after.out) /\ after.state = "Ground" /\ after.buf = <<>>

\* What the user types reaches the host byte for byte, but for the O of a
\* cursor key, and but for at most one O that waits for the byte after it.
UserBytesKept ==
  /\ Len(user.sent) + (IF user.state = "SS3" THEN 1 ELSE 0) = Len(user.typed)
  /\ \A i \in DOMAIN user.sent : user.sent[i] # user.typed[i] =>
       /\ i > 1 /\ user.typed[i - 1] = ESC /\ user.typed[i] = CapitalO /\ user.sent[i] = Bracket
       /\ i < Len(user.typed) /\ user.typed[i + 1] \in 65..68

\* Any bytes leave the parsers within their buffers and ready for the next
\* sequence, and what the user types is kept.
ParserSound == ParserTypeOK /\ BufferFits /\ Understood /\ UserBytesKept
=============================================================================
