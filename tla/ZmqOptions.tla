----------------------------- MODULE ZmqOptions ------------------------------
(***************************************************************************)
(* The options of a ZeroMQ socket as a script sets and gets them: the      *)
(* getters and setters of src/src/lualib/lua_zmq.c.                        *)
(*                                                                         *)
(* A method setX or getX is a row of a table: the option of libzmq it      *)
(* names, and how the value passes between Lua and C.  The rows of a table *)
(* are in the order of the source.  A value is a string that names it:     *)
(* Lua's 0 and C's 0 are "0"; "big" is 2^53 + 1, which neither an int nor  *)
(* a double holds; "te0xt" has a NUL byte inside; "noisy" is a text with   *)
(* bytes behind it that nobody wrote.                                      *)
(***************************************************************************)
EXTENDS Naturals

CONSTANT MaxSets     \* how many options a script sets

ASSUME OptionsAssumption == MaxSets \in Nat

VARIABLES
    options,    \* libzmq's value of each option, "default" until it is set
    asked,      \* what the script last asked for, by the name X of setX
    sets        \* how many calls of a setter have succeeded

optionVars == <<options, asked, sets>>

Integer(o) == [option |-> o, as |-> "integer"]
Boolean(o) == [option |-> o, as |-> "boolean"]
Number(o)  == [option |-> o, as |-> "number"]
Text(o)    == [option |-> o, as |-> "text"]
Pointer(o) == [option |-> o, as |-> "pointer"]
Key(o, n)  == [option |-> o, as |-> n]

-----------------------------------------------------------------------------
(* The getters *)

GetSocket ==
    [Type |-> Integer("TYPE"), RecvMore |-> Integer("RCVMORE"), RecvHWM |-> Integer("RCVHWM"),
     SendHWM |-> Integer("SNDHWM"), Affinity |-> Number("AFFINITY"),
     Identity |-> Text("IDENTITY")]

GetTransport ==
    [Rate |-> Integer("RATE"), RecoveryInterval |-> Integer("RECOVERY_IVL"),
     SendBuf |-> Integer("SNDBUF"), RecvBuf |-> Integer("RCVBUF"), Linger |-> Integer("LINGER"),
     ReconnectInterval |-> Integer("RECONNECT_IVL"),
     ReconnectIntervalMax |-> Integer("RECONNECT_IVL_MAX"), Backlog |-> Integer("BACKLOG")]

GetLimits ==
    [MaxMsgSize |-> Integer("MAXMSGSIZE"), MulticastHops |-> Integer("MULTICAST_HOPS"),
     RecvTimeout |-> Integer("RCVTIMEO"), SendTimeout |-> Integer("SNDTIMEO"),
     Ipv6 |-> Boolean("IPV6"), Immediate |-> Integer("IMMEDIATE"), Fd |-> Integer("FD"),
     Events |-> Integer("EVENTS"), LastEndpoint |-> Text("LAST_ENDPOINT")]

\* Mutant: getTcpKeepalive returns a boolean.
GetKeepaliveBoolean ==
    [TcpKeepalive |-> Boolean("TCP_KEEPALIVE"), TcpKeepaliveIdle |-> Integer("TCP_KEEPALIVE_IDLE"),
     TcpKeepaliveCount |-> Integer("TCP_KEEPALIVE_CNT"),
     TcpKeepaliveInterval |-> Integer("TCP_KEEPALIVE_INTVL"), Mechanism |-> Integer("MECHANISM")]

GetKeepalive ==
    [TcpKeepalive |-> Integer("TCP_KEEPALIVE"), TcpKeepaliveIdle |-> Integer("TCP_KEEPALIVE_IDLE"),
     TcpKeepaliveCount |-> Integer("TCP_KEEPALIVE_CNT"),
     TcpKeepaliveInterval |-> Integer("TCP_KEEPALIVE_INTVL"), Mechanism |-> Integer("MECHANISM")]

GetSecurity ==
    [PlainUsername |-> Text("PLAIN_USERNAME"), PlainPassword |-> Text("PLAIN_PASSWORD"),
     CurvePublicKey |-> Key("CURVE_PUBLICKEY", "key48"),
     CurveSecretKey |-> Key("CURVE_SECRETKEY", "key48"),
     CurveServerKey |-> Key("CURVE_SERVERKEY", "key48"), ZapDomain |-> Text("ZAP_DOMAIN")]

-----------------------------------------------------------------------------
(* The setters *)

\* Mutant: the buffer setters name each other's option.
SetFlowSwapped ==
    [SendHWM |-> Integer("SNDHWM"), RecvHWM |-> Integer("RCVHWM"), SendBuf |-> Integer("RCVBUF"),
     RecvBuf |-> Integer("SNDBUF"), SendTimeout |-> Integer("SNDTIMEO"),
     RecvTimeout |-> Integer("RCVTIMEO"), Affinity |-> Number("AFFINITY")]

SetFlow ==
    [SendHWM |-> Integer("SNDHWM"), RecvHWM |-> Integer("RCVHWM"), SendBuf |-> Integer("SNDBUF"),
     RecvBuf |-> Integer("RCVBUF"), SendTimeout |-> Integer("SNDTIMEO"),
     RecvTimeout |-> Integer("RCVTIMEO"), Affinity |-> Number("AFFINITY")]

SetNames ==
    [Subscribe |-> Text("SUBSCRIBE"), Unsubscribe |-> Text("UNSUBSCRIBE"),
     Identity |-> Text("IDENTITY")]

SetTransport ==
    [Rate |-> Integer("RATE"), RecoveryInterval |-> Integer("RECOVERY_IVL"),
     ReconnectInterval |-> Integer("RECONNECT_IVL"),
     ReconnectIntervalMax |-> Integer("RECONNECT_IVL_MAX"), Backlog |-> Integer("BACKLOG"),
     AcceptFilter |-> Text("TCP_ACCEPT_FILTER"), Linger |-> Integer("LINGER"),
     Immediate |-> Boolean("IMMEDIATE")]

SetPatterns ==
    [Mandatory |-> Integer("ROUTER_MANDATORY"), ProbeRouter |-> Integer("PROBE_ROUTER"),
     XpubVerbose |-> Integer("XPUB_VERBOSE"), ReqRelaxed |-> Integer("REQ_RELAXED")]

SetKeepalive ==
    [TcpKeepalive |-> Integer("TCP_KEEPALIVE"), TcpKeepaliveIdle |-> Integer("TCP_KEEPALIVE_IDLE"),
     TcpKeepaliveCount |-> Integer("TCP_KEEPALIVE_CNT"),
     TcpKeepaliveInterval |-> Integer("TCP_KEEPALIVE_INTVL"),
     ReqCorrelate |-> Integer("REQ_CORRELATE"), MaxMsgSize |-> Number("MAXMSGSIZE"),
     MulticastHops |-> Integer("MULTICAST_HOPS")]

SetSecurity ==
    [Conflate |-> Boolean("CONFLATE"), PlainServer |-> Boolean("PLAIN_SERVER"),
     PlainUsername |-> Pointer("PLAIN_USERNAME"), PlainPassword |-> Pointer("PLAIN_PASSWORD"),
     CurveServer |-> Boolean("CURVE_SERVER"), CurveSecretKey |-> Key("CURVE_SECRETKEY", "key32"),
     CurvePublicKey |-> Key("CURVE_PUBLICKEY", "key32"),
     CurveServerKey |-> Key("CURVE_SERVERKEY", "key40")]

\* libzmq stores one option for both of these, the second one inverted.
SetAddresses == [Ipv6 |-> Boolean("IPV6"), Ipv4only |-> Boolean("IPV4ONLY")]

\* All rows of some tables, which name different methods.
Rows(tables) == [x \in UNION {DOMAIN t : t \in tables} |->
                    (CHOOSE t \in tables : x \in DOMAIN t)[x]]

Getter == Rows({GetSocket, GetTransport, GetLimits, GetKeepalive, GetSecurity})
Setter == Rows({SetFlow, SetNames, SetTransport, SetPatterns, SetKeepalive, SetSecurity,
                SetAddresses})

-----------------------------------------------------------------------------
(* What passes between Lua and C *)

Texts == {"text", "te0xt", "key32", "key40"}
LuaValues == {"0", "1", "big", "true", "false"} \cup Texts

\* luaL_checkinteger, luaL_checklstring and the like: what a setter accepts.
Accepts(as, v) == CASE as \in {"integer", "number"}  -> v \in {"0", "1", "big"}
                  [] as = "boolean"                -> TRUE
                  [] as \in {"text", "pointer"}    -> v \in Texts
                  [] OTHER                         -> v = as

\* A conversion to int keeps 32 bits, one to double 53; every value but false and
\* nil is true; &value is where the variable is, not the text it points to.
ToC(as, v) == CASE as = "integer" -> IF v = "big" THEN "1" ELSE v
                [] as = "number"  -> IF v = "big" THEN "rounded" ELSE v
                [] as = "boolean" -> IF v = "false" THEN "0" ELSE "1"
                [] as = "pointer" -> "address"
                [] OTHER          -> v

\* zmq_setsockopt with a value it accepts.
Stored(option, c) ==
    IF option = "IPV4ONLY"
    THEN [options EXCEPT !["IPV6"] = IF c = "0" THEN "1" ELSE "0"]
    ELSE [options EXCEPT ![option] = c]

\* zmq_getsockopt wants the size of the option: MAXMSGSIZE has 64 bits, and a key
\* has 32 or 41 bytes.  It ends every text but the identity with a NUL.
SizeFits(g) == g.as # "key48" /\ ~(g.option = "MAXMSGSIZE" /\ g.as = "integer")

\* lua_pushboolean, lua_pushinteger, lua_pushstring
ToLua(g, c) ==
    CASE ~SizeFits(g)         -> {"error"}
      [] g.as = "boolean"     -> {IF c \in {"0", "default"} THEN "false" ELSE "true"}
      [] g.as = "text"        -> (IF c = "te0xt" THEN {"te"} ELSE {c})
                                 \cup (IF g.option = "IDENTITY" /\ c # "te0xt"
                                       THEN {"noisy"} ELSE {})
      [] OTHER                -> {c}

-----------------------------------------------------------------------------
Options == {Setter[x].option : x \in DOMAIN Setter} \cup {Getter[x].option : x \in DOMAIN Getter}

OptionsInit == /\ options = [o \in Options |-> "default"]
               /\ asked = [x \in DOMAIN Setter |-> "nothing"]
               /\ sets = 0

\* setX(v).  An argument of the wrong type, or a value that libzmq refuses, raises
\* an error and changes nothing.
Set(x, v) ==
    /\ sets < MaxSets
    /\ Accepts(Setter[x].as, v)
    /\ options' = Stored(Setter[x].option, ToC(Setter[x].as, v))
    /\ asked' = CASE x = "Ipv4only" -> [asked EXCEPT ![x] = v, !["Ipv6"] =
                                            IF v = "false" THEN "true" ELSE "false"]
                  [] OTHER          -> [asked EXCEPT ![x] = v]
    /\ sets' = sets + 1

\* getX(), which changes nothing: what it may return.
Get(x) == ToLua(Getter[x], options[Getter[x].option])

OptionsNext == \E x \in DOMAIN Setter, v \in LuaValues : Set(x, v)

OptionsSpec == OptionsInit /\ [][OptionsNext]_optionVars

-----------------------------------------------------------------------------
\* Every option has a value of its type.
OptionsTypeOK ==
    /\ options \in [Options -> {"default", "0", "1", "rounded", "address"} \cup Texts]
    /\ asked \in [DOMAIN Setter -> LuaValues \cup {"nothing"}]
    /\ sets \in 0 .. MaxSets

\* What cannot be read back: getMaxMsgSize and the keys' getters pass a size that
\* libzmq refuses; setPlainUsername and setPlainPassword store the bytes of a
\* pointer; getIdentity does not say how long the identity is; setImmediate takes
\* a boolean, getImmediate returns an integer.
Unreadable == {"MaxMsgSize", "CurvePublicKey", "CurveSecretKey", "CurveServerKey",
               "PlainUsername", "PlainPassword", "Identity", "Immediate"}

\* getX returns what setX was last given, whatever other options were set since;
\* setters that take a boolean take 0 for true.
ReadsBack ==
    \A x \in (DOMAIN Setter \cap DOMAIN Getter) \ Unreadable :
        asked[x] \notin {"nothing", "big"} =>
            Get(x) = {IF Getter[x].as = "boolean" /\ asked[x] # "false" THEN "true" ELSE asked[x]}

\* A script that gives setX of another socket what getX returned gives that socket
\* the same option, except for Immediate: getImmediate returns 0, which
\* setImmediate takes for true.
CopyKeeps ==
    \A x \in (DOMAIN Setter \cap DOMAIN Getter) \ Unreadable :
        LET c == options[Getter[x].option]
        IN  c \notin {"default", "rounded"} =>
                \A v \in Get(x) :
                    Accepts(Setter[x].as, v) /\ ToC(Setter[x].as, v) = c

\* Setters and getters of an option agree: on the option they name, on its width and
\* on the type a script sees.
OptionsKept == ReadsBack /\ CopyKeeps
=============================================================================
