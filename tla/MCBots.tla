------------------------------- MODULE MCBots -------------------------------
(* Bots on two configs: a sound bot before one whose second trigger may have *)
(* a bad schedule, and a single bot with both kinds of trigger, beside an    *)
(* observer that starts or fails.                                            *)
EXTENDS Bots, TLC

CONSTANTS ann, ben, zoe, main, nil

MCNames == {ann, ben}
MCOthers == {zoe}
MCChannels == {main}

On(kind, fails) == [kind |-> kind, fails |-> fails, channels |-> MCChannels]
Named(name, triggers) == [name |-> name, triggers |-> triggers]
Listens == On("channel", "never")
Ticks == On("cron", "never")

MCConfigs ==
  { [bots |-> <<Named(ann, <<Listens, Ticks>>)>>, observer |-> "unnamed"],
    [bots |-> <<Named(ann, <<Listens>>), Named(ben, <<Ticks>>)>>, observer |-> "named"],
    [bots |-> <<Named(ann, <<Listens>>), Named(ben, <<Ticks, On("cron", "start")>>)>>, observer |-> "none"],
    [bots |-> <<Named(ben, <<On("channel", "new")>>)>>, observer |-> "none"] }
=============================================================================
