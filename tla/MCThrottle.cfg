SPECIFICATION Spec
CONSTANTS
    Ips = {ip1, ip2}
    throttle = 2
    consideredSeconds = 2
    BanTimes = {1, 3}
    MaxTicks = 5
    MaxAttempts = 4
INVARIANTS
    AtMostThrottle
PROPERTIES
    BansAreFair
CHECK_DEADLOCK FALSE
