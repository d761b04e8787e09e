SPECIFICATION Spec
CONSTANTS
    Sources = {client}
    PeerSources = {client}
    Dests = {d1, d2}
    NoOne = NoOne
    MaxSessions = 1
    MaxDNS = 1
    MaxSockets = 3
    Second = {}
INVARIANT NoSocketLeft
