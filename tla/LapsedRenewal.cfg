CONSTANTS
    SettledTrade = {t1, t2}
    LastRenewal = 2
    MaximumRenewals = 2
SPECIFICATION MandateSpec
PROPERTIES
    CommittedIsLeftAlone
CHECK_DEADLOCK FALSE
