---------------------------- MODULE MCBmapCodec ----------------------------
\* Values for model checking: ends of the ranges and values between, and
\* messages that are errors, too short, or no status.
EXTENDS BmapCodec

Ask(k, v) == [knob |-> k, value |-> v]
MCCommands ==
    {Ask("cnc", 3), Ask("bass", -1), Ask("treble", -10), Ask("mid", 10),
     Ask("sidetone", "low"), Ask("prompts", TRUE), Ask("multipoint", FALSE)}

MCTouches ==
    {[knob |-> "cnc", byte |-> 10],
     [knob |-> "prompts", byte |-> 162]}

Message(fb, fn, op, p) ==
    [fblock |-> fb, func |-> fn, op |-> op, payload |-> p]
MCOthers ==
    {Message(1, 5, Error, <<3>>), Message(1, 5, Status, <<11>>),
     Message(0, 9, 7, <<0, 7, 1>>), Message(0, 9, Status, <<>>)}
=============================================================================
